---- MODULE Spec2Model ----
(***************************************************************************)
(* The accessor data engine of bevy_gltf_transformer: ElementShape, Meta,  *)
(* the Element cursor, DenseData, IndexData, SparseData and Data, with     *)
(* their iterators, as a state machine over one loaded accessor (Spec);    *)
(* the Accessible implementations call by call on one Element              *)
(* (SpecElement); the node traversals DepthFirst and FilteredDepthFirst    *)
(* (SpecScene); and the material handling of SimpleGltfTransformer's load  *)
(* (SpecLoad).                                                             *)
(***************************************************************************)
EXTENDS Integers, Sequences, FiniteSets, TLC

(* ------------------------------ bounds ------------------------------- *)
\* largest accessor count drawn by Init
MaxCount == 3
\* largest sparse override count drawn by Init
MaxSparse == 2
\* cap on the number of elements one iterator is driven to produce
MaxEmit == 5
\* cap on the number of probes one stepwise search is driven through
MaxProbes == 6
\* the model's usize holds 0..UsizeMax (the source's is 64 bit)
UsizeMax == 255

(* ------------------------- outcomes of a call ------------------------ *)
\* Option::None
None == [tag |-> "None"]
\* Option::Some(v)
Some(v) == [tag |-> "Some", val |-> v]
\* the call panicked
Panic == [tag |-> "Panic"]
\* the call never returns
Hang == [tag |-> "Hang"]

(* ------------------------- ElementType / Shape ----------------------- *)
ElementTypes == {"U8", "I8", "U16", "I16", "U32", "F32"}

Dims == {"Scalar", "Vec2", "Vec3", "Vec4", "Mat2", "Mat3", "Mat4"}

\* ElementType::size
TypeSize(t) ==
  CASE t = "U8" -> 1
    [] t = "I8" -> 1
    [] t = "U16" -> 2
    [] t = "I16" -> 2
    [] t = "U32" -> 4
    [] t = "F32" -> 4

\* an ElementShape: the variant (dim) and the ElementType it carries
Shape(d, t) == [dim |-> d, ty |-> t]

\* a size that takes a 2x2 matrix for two components
ShapeSize_Mat2AsVec2(s) ==
  CASE s.dim = "Scalar" -> TypeSize(s.ty)
    [] s.dim = "Vec2" -> 2 * TypeSize(s.ty)
    [] s.dim = "Vec3" -> 3 * TypeSize(s.ty)
    [] s.dim = "Vec4" -> 4 * TypeSize(s.ty)
    [] s.dim = "Mat2" -> 2 * TypeSize(s.ty)
    [] s.dim = "Mat3" -> 9 * TypeSize(s.ty)
    [] s.dim = "Mat4" -> 16 * TypeSize(s.ty)

\* ElementShape::size
ShapeSize(s) ==
  CASE s.dim = "Scalar" -> TypeSize(s.ty)
    [] s.dim = "Vec2" -> 2 * TypeSize(s.ty)
    [] s.dim = "Vec3" -> 3 * TypeSize(s.ty)
    [] s.dim = "Vec4" -> 4 * TypeSize(s.ty)
    [] s.dim = "Mat2" -> 4 * TypeSize(s.ty)
    [] s.dim = "Mat3" -> 9 * TypeSize(s.ty)
    [] s.dim = "Mat4" -> 16 * TypeSize(s.ty)

\* number of components the array impls read for a dimension
\* ([T; 2], [T; 3], [T; 4], [[T; 2]; 2], [[T; 3]; 3], [[T; 4]; 4])
DimCount(d) ==
  CASE d = "Scalar" -> 1
    [] d = "Vec2" -> 2
    [] d = "Vec3" -> 3
    [] d = "Vec4" -> 4
    [] d = "Mat2" -> 4
    [] d = "Mat3" -> 9
    [] d = "Mat4" -> 16

\* ElementShape::data_type: the gltf DataType of the shape
ShapeDataType(s) ==
  CASE s.ty = "U8" -> "DataType::U8"
    [] s.ty = "I8" -> "DataType::I8"
    [] s.ty = "U16" -> "DataType::U16"
    [] s.ty = "I16" -> "DataType::I16"
    [] s.ty = "U32" -> "DataType::U32"
    [] s.ty = "F32" -> "DataType::F32"

\* ElementShape::dimensions: the gltf Dimensions of the shape
ShapeDimensions(s) ==
  CASE s.dim = "Scalar" -> "Dimensions::Scalar"
    [] s.dim = "Vec2" -> "Dimensions::Vec2"
    [] s.dim = "Vec3" -> "Dimensions::Vec3"
    [] s.dim = "Vec4" -> "Dimensions::Vec4"
    [] s.dim = "Mat2" -> "Dimensions::Mat2"
    [] s.dim = "Mat3" -> "Dimensions::Mat3"
    [] s.dim = "Mat4" -> "Dimensions::Mat4"

\* ElementShape::from(&gltf::Accessor), for an accessor of the given DataType
\* and Dimensions
ElementShapeFrom(data_type, dimensions) ==
  LET t == CASE data_type = "DataType::F32" -> "F32"
             [] data_type = "DataType::I8" -> "I8"
             [] data_type = "DataType::U8" -> "U8"
             [] data_type = "DataType::I16" -> "I16"
             [] data_type = "DataType::U16" -> "U16"
             [] data_type = "DataType::U32" -> "U32"
  IN CASE dimensions = "Dimensions::Scalar" -> Shape("Scalar", t)
       [] dimensions = "Dimensions::Vec2" -> Shape("Vec2", t)
       [] dimensions = "Dimensions::Vec3" -> Shape("Vec3", t)
       [] dimensions = "Dimensions::Vec4" -> Shape("Vec4", t)
       [] dimensions = "Dimensions::Mat2" -> Shape("Mat2", t)
       [] dimensions = "Dimensions::Mat3" -> Shape("Mat3", t)
       [] dimensions = "Dimensions::Mat4" -> Shape("Mat4", t)

\* AccessorData::KIND of the rust types u8, i8, u16, i16, u32, f32
Kind(t) ==
  CASE t = "U8" -> "DataType::U8"
    [] t = "I8" -> "DataType::I8"
    [] t = "U16" -> "DataType::U16"
    [] t = "I16" -> "DataType::I16"
    [] t = "U32" -> "DataType::U32"
    [] t = "F32" -> "DataType::F32"

\* AccessorShape::DIM of T, [T; 2], [T; 3], [T; 4], [[T; 2]; 2], [[T; 3]; 3]
\* and [[T; 4]; 4]
Dim(d) ==
  CASE d = "Scalar" -> "Dimensions::Scalar"
    [] d = "Vec2" -> "Dimensions::Vec2"
    [] d = "Vec3" -> "Dimensions::Vec3"
    [] d = "Vec4" -> "Dimensions::Vec4"
    [] d = "Mat2" -> "Dimensions::Mat2"
    [] d = "Mat3" -> "Dimensions::Mat3"
    [] d = "Mat4" -> "Dimensions::Mat4"
    [] OTHER -> "none"

(* ----------------------------- usize --------------------------------- *)
\* usize::checked_mul
CheckedMul(a, b) == IF a * b > UsizeMax THEN None ELSE Some(a * b)

\* usize::checked_add
CheckedAdd(a, b) == IF a + b > UsizeMax THEN None ELSE Some(a + b)

\* usize::div_ceil(2)
DivCeil2(a) == (a \div 2) + (IF a % 2 # 0 THEN 1 ELSE 0)

(* --------------------------- Element cursor -------------------------- *)
\* little-endian value of the first w bytes of data; a 32-bit value is kept
\* as its two 16-bit halves
LeValue(data, w) ==
  CASE w = 1 -> data[1]
    [] w = 2 -> data[1] + 256 * data[2]
    [] w = 4 -> [hi |-> data[3] + 256 * data[4], lo |-> data[1] + 256 * data[2]]

\* `as i8` / `as i16`: reinterpret an unsigned w-byte value as signed
AsSigned(v, w) ==
  CASE w = 1 -> IF v >= 128 THEN v - 256 ELSE v
    [] w = 2 -> IF v >= 32768 THEN v - 65536 ELSE v
    [] OTHER -> v

\* a read that returns the value but moves the cursor one byte only
ReadPrim_AdvancesOneByte(data, t) ==
  IF Len(data) < TypeSize(t)
  THEN Panic
  ELSE [tag |-> "Read",
        val |-> IF t \in {"I8", "I16"}
                THEN AsSigned(LeValue(data, TypeSize(t)), TypeSize(t))
                ELSE LeValue(data, TypeSize(t)),
        rest |-> SubSeq(data, 2, Len(data))]

\* AccessorData::get for component type t: Element::read_u8 .. read_f32.
\* Gives the value read and the shortened cursor, or Panic on underrun.
\* An f32 is represented by its bit pattern.
ReadPrim(data, t) ==
  IF Len(data) < TypeSize(t)
  THEN Panic
  ELSE [tag |-> "Read",
        val |-> IF t \in {"I8", "I16"}
                THEN AsSigned(LeValue(data, TypeSize(t)), TypeSize(t))
                ELSE LeValue(data, TypeSize(t)),
        rest |-> SubSeq(data, TypeSize(t) + 1, Len(data))]

\* n successive AccessorData::get calls on one cursor, as the array impls do
RECURSIVE ReadComps(_, _, _)
ReadComps(data, t, n) ==
  IF n = 0
  THEN Some(<<>>)
  ELSE LET Rest(r, more) ==
             IF more.tag = "Panic" THEN Panic ELSE Some(<<r.val>> \o more.val)
           Read(r) ==
             IF r.tag = "Panic" THEN Panic ELSE Rest(r, ReadComps(r.rest, t, n - 1))
       IN Read(ReadPrim(data, t))

\* T::from_element for the generic scalar / array type with component type t
\* and dimension d; an Item is the sequence of its components
FromElement(data, t, d) == ReadComps(data, t, DimCount(d))

\* T::zero for the generic scalar / array types: ZERO in every component
Zero(d) == [k \in 1..DimCount(d) |-> 0]

\* Accessible::validate_accessor for the generic type (t, d)
ValidateAccessor(t, d, shape) ==
  t \in ElementTypes /\ ShapeDataType(shape) = Kind(t) /\ ShapeDimensions(shape) = Dim(d)

(* ------------------- the Accessible implementations ------------------ *)
\* n successive reads of type t: the values read and the cursor left, or
\* Panic on underrun
RECURSIVE Consume(_, _, _)
Consume(data, t, n) ==
  IF n = 0
  THEN [tag |-> "Read", vals |-> <<>>, rest |-> data]
  ELSE LET Rest(r, more) ==
             IF more.tag = "Panic"
             THEN Panic
             ELSE [tag |-> "Read", vals |-> <<r.val>> \o more.vals, rest |-> more.rest]
           Read(r) ==
             IF r.tag = "Panic" THEN Panic ELSE Rest(r, Consume(r.rest, t, n - 1))
       IN Read(ReadPrim(data, t))

\* the f32 literals 1.0 (bits 0x3F800000) and 0.0
F32One == [hi |-> 16256, lo |-> 0]

F32Zero == [hi |-> 0, lo |-> 0]

\* Normalizable::norm of a u8 / u16: the quotient by 255.0 / 65525.0, kept as
\* numerator and denominator
Norm(v, t) == [num |-> v, den |-> IF t = "U8" THEN 255 ELSE 65525]

\* unreachable!()
Unreachable == [tag |-> "Unreachable"]

\* the outcome of a from_element body that reads n components of type t,
\* converts each (conv: "id", "norm" or "as_u16") and appends the literals of
\* tail: the item and the cursor the call leaves behind
ReadItem(data, t, n, conv, tail) ==
  LET Built(r) ==
        IF r.tag = "Panic"
        THEN Panic
        ELSE [tag |-> "Item",
              item |-> [k \in 1..n |-> IF conv = "norm" THEN Norm(r.vals[k], t)
                                                        ELSE r.vals[k]] \o tail,
              rest |-> r.rest]
  IN Built(Consume(data, t, n))

\* the types implementing Accessible by name: the glam types and the mesh
\* attribute readers
GlamImpls == {"Vec2", "Vec3", "Vec3A", "Quat", "Mat2", "Mat3", "Mat3A", "Mat4"}

AttrImpls ==
  {"AttrColor", "AttrPosition", "AttrTexCoord", "AttrJointIndex", "AttrJointWeight"}

\* validate_accessor of the named implementations
NamedValidate(name, shape) ==
  CASE name = "Vec2" -> shape = Shape("Vec2", "F32")
    [] name = "Vec3" -> shape = Shape("Vec3", "F32")
    [] name = "Vec3A" -> shape = Shape("Vec3", "F32")
    [] name = "Quat" -> shape = Shape("Vec4", "F32")
    [] name = "Mat2" -> shape = Shape("Mat2", "F32")
    [] name = "Mat3" -> shape = Shape("Mat3", "F32")
    [] name = "Mat3A" -> shape = Shape("Mat3", "F32")
    [] name = "Mat4" -> shape = Shape("Mat4", "F32")
    [] name = "AttrColor" ->
         shape.dim \in {"Vec3", "Vec4"} /\ shape.ty \in {"F32", "U16", "U8"}
    [] name = "AttrPosition" ->
         shape \in {Shape("Vec2", "F32"), Shape("Vec3", "F32")}
    [] name = "AttrTexCoord" ->
         shape.dim = "Vec2" /\ shape.ty \in {"F32", "U16", "U8"}
    [] name = "AttrJointIndex" ->
         shape.dim = "Vec4" /\ shape.ty \in {"U16", "U8"}
    [] name = "AttrJointWeight" ->
         shape.dim = "Vec4" /\ shape.ty \in {"F32", "U16", "U8"}

\* AttrPosition::from_element on a Vec2<f32>: [x, 0.0, y]
PositionFromVec2(data) ==
  LET Built(r) ==
        IF r.tag = "Panic"
        THEN Panic
        ELSE [tag |-> "Item", item |-> <<r.vals[1], F32Zero, r.vals[2]>>, rest |-> r.rest]
  IN Built(Consume(data, "F32", 2))

\* from_element of the named implementations: the glam types read f32s
\* whatever the shape, the attribute readers match on elem.shape
NamedFromElement(name, data, shape) ==
  CASE name = "Vec2" -> ReadItem(data, "F32", 2, "id", <<>>)
    [] name = "Vec3" -> ReadItem(data, "F32", 3, "id", <<>>)
    [] name = "Vec3A" -> ReadItem(data, "F32", 3, "id", <<>>)
    [] name = "Quat" -> ReadItem(data, "F32", 4, "id", <<>>)
    [] name = "Mat2" -> ReadItem(data, "F32", 4, "id", <<>>)
    [] name = "Mat3" -> ReadItem(data, "F32", 9, "id", <<>>)
    [] name = "Mat3A" -> ReadItem(data, "F32", 9, "id", <<>>)
    [] name = "Mat4" -> ReadItem(data, "F32", 16, "id", <<>>)
    [] name = "AttrColor" ->
         (CASE shape = Shape("Vec3", "F32") -> ReadItem(data, "F32", 3, "id", <<F32One>>)
            [] shape = Shape("Vec4", "F32") -> ReadItem(data, "F32", 4, "id", <<>>)
            [] shape = Shape("Vec3", "U8") -> ReadItem(data, "U8", 3, "norm", <<F32One>>)
            [] shape = Shape("Vec4", "U8") -> ReadItem(data, "U8", 4, "norm", <<>>)
            [] shape = Shape("Vec3", "U16") -> ReadItem(data, "U16", 3, "norm", <<F32One>>)
            [] shape = Shape("Vec4", "U16") -> ReadItem(data, "U16", 4, "norm", <<>>)
            [] OTHER -> Unreachable)
    [] name = "AttrPosition" ->
         (CASE shape = Shape("Vec2", "F32") -> PositionFromVec2(data)
            [] shape = Shape("Vec3", "F32") -> ReadItem(data, "F32", 3, "id", <<>>)
            [] OTHER -> Unreachable)
    [] name = "AttrTexCoord" ->
         (CASE shape = Shape("Vec2", "F32") -> ReadItem(data, "F32", 2, "id", <<>>)
            [] shape = Shape("Vec2", "U16") -> ReadItem(data, "U16", 2, "norm", <<>>)
            [] shape = Shape("Vec2", "U8") -> ReadItem(data, "U8", 2, "norm", <<>>)
            [] OTHER -> Unreachable)
    [] name = "AttrJointIndex" ->
         (CASE shape = Shape("Vec4", "U16") -> ReadItem(data, "U16", 4, "id", <<>>)
            [] shape = Shape("Vec4", "U8") -> ReadItem(data, "U8", 4, "as_u16", <<>>)
            [] OTHER -> Unreachable)
    [] name = "AttrJointWeight" ->
         (CASE shape = Shape("Vec4", "F32") -> ReadItem(data, "F32", 4, "id", <<>>)
            [] shape = Shape("Vec4", "U8") -> ReadItem(data, "U8", 4, "norm", <<>>)
            [] shape = Shape("Vec4", "U16") -> ReadItem(data, "U16", 4, "norm", <<>>)
            [] OTHER -> Unreachable)

\* zero of the named implementations: ZERO of the glam types, IDENTITY for
\* Quat, arrays of 0.0 or 0 for the attribute readers
NamedZero(name) ==
  CASE name = "Vec2" -> [k \in 1..2 |-> F32Zero]
    [] name = "Vec3" -> [k \in 1..3 |-> F32Zero]
    [] name = "Vec3A" -> [k \in 1..3 |-> F32Zero]
    [] name = "Quat" -> <<F32Zero, F32Zero, F32Zero, F32One>>
    [] name = "Mat2" -> [k \in 1..4 |-> F32Zero]
    [] name = "Mat3" -> [k \in 1..9 |-> F32Zero]
    [] name = "Mat3A" -> [k \in 1..9 |-> F32Zero]
    [] name = "Mat4" -> [k \in 1..16 |-> F32Zero]
    [] name = "AttrColor" -> [k \in 1..4 |-> F32Zero]
    [] name = "AttrPosition" -> [k \in 1..3 |-> F32Zero]
    [] name = "AttrTexCoord" -> [k \in 1..2 |-> F32Zero]
    [] name = "AttrJointIndex" -> [k \in 1..4 |-> 0]
    [] name = "AttrJointWeight" -> [k \in 1..4 |-> F32Zero]

\* an implementation of Accessible: ElemType(t, d) for the generic scalar and
\* array types, or a named one
NamedType(name) == [t |-> name, d |-> "Named"]

\* a validation that looks at the component type only
ImplValidate_TypeOnly(U, shape) ==
  IF U.d = "Named" THEN shape.ty \in {"F32", "U16", "U8"} ELSE U.t = shape.ty

\* U::validate_accessor(shape) for any implementation U
ImplValidate(U, shape) ==
  IF U.d = "Named" THEN NamedValidate(U.t, shape) ELSE ValidateAccessor(U.t, U.d, shape)

\* U::zero(shape) for any implementation U; the ZERO of a four-byte component
\* is kept as two halves, as its reads are
ImplZero(U, shape) ==
  IF U.d = "Named"
  THEN NamedZero(U.t)
  ELSE IF TypeSize(U.t) = 4 THEN [k \in 1..DimCount(U.d) |-> F32Zero] ELSE Zero(U.d)

\* U::from_element(Element{data, shape}) for any implementation U
ImplFromElement(U, data, shape) ==
  IF U.d = "Named"
  THEN NamedFromElement(U.t, data, shape)
  ELSE ReadItem(data, U.t, DimCount(U.d), "id", <<>>)

(* ------------------------------- Meta -------------------------------- *)
\* an accessor of the document: shape, count, normalized flag, the stride of
\* its view (0: the view gives none) and whether it has a view
\* Meta::from_accessor
MetaFromAccessor(a) ==
  [shape |-> a.shape,
   elem_size |-> ShapeSize(a.shape),
   count |-> a.count,
   stride |-> IF a.has_view /\ a.stride # 0 THEN a.stride ELSE ShapeSize(a.shape),
   normalized |-> a.normalized]

\* Meta::from_sparse_index
MetaFromSparseIndex(a) ==
  [shape |-> a.shape,
   elem_size |-> ShapeSize(a.shape),
   count |-> a.sparse.count,
   stride |-> IF a.sparse.index_stride # 0
              THEN a.sparse.index_stride
              ELSE TypeSize(a.sparse.index_type),
   normalized |-> FALSE]

\* Meta::from_sparse_values
MetaFromSparseValues(a) ==
  [shape |-> a.shape,
   elem_size |-> ShapeSize(a.shape),
   count |-> a.sparse.count,
   stride |-> IF a.sparse.value_stride # 0
              THEN a.sparse.value_stride
              ELSE ShapeSize(a.shape),
   normalized |-> a.normalized]

(* ----------------------------- DenseData ----------------------------- *)
\* the marker type Untyped, and the generic scalar / array type with
\* component type t and dimension d
Untyped == [t |-> "Untyped", d |-> "Untyped"]

ElemType(t, d) == [t |-> t, d |-> d]

\* DenseData::new: meta, view and the phantom element type
DenseNew(meta, view) == [meta |-> meta, view |-> view, elem |-> Untyped]

\* a with_type that rebuilds the meta and loses the normalized flag
DenseWithType_DropsNormalized(d, T) ==
  [meta |-> [d.meta EXCEPT !.normalized = FALSE], view |-> d.view, elem |-> T]

\* DenseData::with_type
DenseWithType(d, T) == [meta |-> d.meta, view |-> d.view, elem |-> T]

\* get_raw that tests only the start of the byte range against the view
DenseGetRaw_NoEndTest(d, index) ==
  LET raw_index == CheckedMul(index, d.meta.stride)
  IN IF raw_index.tag = "None"
     THEN None
     ELSE LET raw_end_index == CheckedAdd(raw_index.val, d.meta.elem_size)
          IN IF raw_end_index.tag = "None"
             THEN None
             ELSE IF d.meta.count > index /\ raw_index.val < Len(d.view)
                  THEN IF raw_index.val <= raw_end_index.val
                          /\ raw_end_index.val <= Len(d.view)
                       THEN Some(SubSeq(d.view, raw_index.val + 1, raw_end_index.val))
                       ELSE Panic
                  ELSE None

\* DenseData::get_raw.  Slicing view[a..b] panics unless a <= b <= len.
DenseGetRaw(d, index) ==
  LET raw_index == CheckedMul(index, d.meta.stride)
  IN IF raw_index.tag = "None"
     THEN None
     ELSE LET raw_end_index == CheckedAdd(raw_index.val, d.meta.elem_size)
          IN IF raw_end_index.tag = "None"
             THEN None
             ELSE IF d.meta.count > index
                     /\ raw_index.val < Len(d.view)
                     /\ raw_end_index.val < Len(d.view)
                  THEN IF raw_index.val <= raw_end_index.val
                          /\ raw_end_index.val <= Len(d.view)
                       THEN Some(SubSeq(d.view, raw_index.val + 1, raw_end_index.val))
                       ELSE Panic
                  ELSE None

\* DenseData::as_untyped
DenseAsUntyped(d) == [meta |-> d.meta, view |-> d.view, elem |-> Untyped]

\* DenseData::get, for the element type the data carries
DenseGet(d, index) ==
  LET Item(r) == IF r.tag = "Item" THEN Some(r.item) ELSE r
      Map(raw) ==
        IF raw.tag # "Some"
        THEN raw
        ELSE IF d.elem.d = "Named"
             THEN Item(NamedFromElement(d.elem.t, raw.val, d.meta.shape))
             ELSE FromElement(raw.val, d.elem.t, d.elem.d)
  IN Map(DenseGetRaw(d, index))

\* DenseData::try_with_type
DenseTryWithType(d, T) ==
  IF ImplValidate(T, d.meta.shape)
  THEN [tag |-> "Ok", val |-> DenseWithType(d, T)]
  ELSE [tag |-> "Err", err |-> "AccessorType", requested |-> T,
        dt |-> ShapeDataType(d.meta.shape), dim |-> ShapeDimensions(d.meta.shape)]

\* a next that advances the counter on every call, whatever get returns
DenseIterNext_AlwaysAdvances(d, counter) ==
  [ret |-> IF counter < d.meta.count THEN DenseGet(d, counter) ELSE None,
   counter |-> counter + 1]

\* DenseDataIter::next at position counter: the value returned and the new
\* position
DenseIterNext(d, counter) ==
  IF counter < d.meta.count
  THEN LET Advance(out) ==
             IF out.tag = "Some"
             THEN [ret |-> out, counter |-> counter + 1]
             ELSE [ret |-> out, counter |-> counter]
       IN Advance(DenseGet(d, counter))
  ELSE [ret |-> None, counter |-> counter]

\* ExactSizeIterator::len of DenseDataIter (size_hint gives the same number)
DenseIterLen(d, counter) == d.meta.count - counter

(* ----------------------------- IndexData ----------------------------- *)
\* IndexData::U8 / U16 / U32 wrapping a typed DenseData
IndexNew(kind, d) == [kind |-> kind, d |-> d]

\* IndexData::count
IndexCount(ix) == ix.d.meta.count

\* IndexData::get: d.get(n).map(|v| v as usize)
IndexGet(ix, n) ==
  LET Map(r) == IF r.tag = "Some" THEN Some(r.val[1]) ELSE r
  IN Map(DenseGet(ix.d, n))

\* left + right on usize: a debug build panics on overflow, a release build
\* wraps
UsizeAdd(a, b, overflow_checks) ==
  IF a + b > UsizeMax
  THEN IF overflow_checks THEN Panic ELSE Some((a + b) % (UsizeMax + 1))
  ELSE Some(a + b)

\* the state of bin_search! on entry: left = 0, right = count - 1.
\* count - 1 underflows on an empty array: a debug build panics, a release
\* build wraps to usize::MAX
SearchEnter(ix, overflow_checks) ==
  IF IndexCount(ix) = 0
  THEN IF overflow_checks
       THEN [tag |-> "Return", ret |-> Panic]
       ELSE [tag |-> "Loop", left |-> 0, right |-> UsizeMax]
  ELSE [tag |-> "Loop", left |-> 0, right |-> IndexCount(ix) - 1]

\* a final check that returns the position whatever index is stored there
SearchFinal_NoCompare(ix, index, left) ==
  LET AndThen(r) == IF r.tag = "Some" THEN Some(left) ELSE r
  IN AndThen(IndexGet(ix, left))

\* the check of the final index, after the loop
SearchFinal(ix, index, left) ==
  LET AndThen(r) ==
        IF r.tag = "Some"
        THEN IF r.val = index THEN Some(left) ELSE None
        ELSE r
  IN AndThen(IndexGet(ix, left))

\* one pass of `while left != right { .. }` of bin_search!, or, when the loop
\* condition fails, the final check: the value returned or the new bounds
SearchStep(ix, index, left, right, overflow_checks) ==
  IF left = right
  THEN [tag |-> "Return", ret |-> SearchFinal(ix, index, left)]
  ELSE LET Cmp(idx, replaces) ==
             IF replaces.tag # "Some"
             THEN [tag |-> "Return", ret |-> replaces]
             ELSE IF replaces.val = index
                  THEN [tag |-> "Return", ret |-> Some(idx)]
                  ELSE IF replaces.val < index
                       THEN [tag |-> "Loop", left |-> idx + 1, right |-> right]
                       ELSE [tag |-> "Loop", left |-> left, right |-> idx]
           Probe(idx) == Cmp(idx, IndexGet(ix, idx))
           Mid(sum) ==
             IF sum.tag = "Panic"
             THEN [tag |-> "Return", ret |-> Panic]
             ELSE Probe(DivCeil2(sum.val))
       IN Mid(UsizeAdd(left, right, overflow_checks))

\* the loop of bin_search! run to its end; a pass that leaves both bounds as
\* they were repeats forever
RECURSIVE SearchLoop(_, _, _, _, _)
SearchLoop(ix, index, left, right, overflow_checks) ==
  LET Again(s) ==
        IF s.tag = "Return"
        THEN s.ret
        ELSE IF s.left = left /\ s.right = right
             THEN Hang
             ELSE SearchLoop(ix, index, s.left, s.right, overflow_checks)
  IN Again(SearchStep(ix, index, left, right, overflow_checks))

\* IndexData::find_replacement
FindReplacement(ix, index, overflow_checks) ==
  LET Run(e) ==
        IF e.tag = "Return"
        THEN e.ret
        ELSE SearchLoop(ix, index, e.left, e.right, overflow_checks)
  IN Run(SearchEnter(ix, overflow_checks))

(* ----------------------------- SparseData ---------------------------- *)
\* length of the static ZEROS buffer
ZerosLen == 256

\* SparseData::new; base is None or Some(DenseData)
SparseNew(meta, base, indices, values) ==
  [meta |-> meta, base |-> base, indices |-> indices, values |-> values,
   elem |-> Untyped]

\* &ZEROS[..elem_size]
ZeroBytes(elem_size) ==
  IF elem_size > ZerosLen THEN Panic ELSE Some([k \in 1..elem_size |-> 0])

\* SparseData::get_raw
SparseGetRaw(s, index, overflow_checks) ==
  LET Match(f) ==
        IF f.tag = "Some"
        THEN DenseGetRaw(s.values, f.val)
        ELSE IF f.tag = "None"
             THEN IF s.base.tag = "Some"
                  THEN DenseGetRaw(s.base.val, index)
                  ELSE ZeroBytes(s.meta.elem_size)
             ELSE f
  IN Match(FindReplacement(s.indices, index, overflow_checks))

\* SparseData::get
SparseGet(s, index, overflow_checks) ==
  LET Match(f) ==
        IF f.tag = "Some"
        THEN DenseGet(s.values, f.val)
        ELSE IF f.tag = "None"
             THEN IF s.base.tag = "Some"
                  THEN DenseGet(s.base.val, index)
                  ELSE Some(Zero(s.elem.d))
             ELSE f
  IN Match(FindReplacement(s.indices, index, overflow_checks))

\* SparseData::with_type
SparseWithType(s, T) ==
  [meta |-> s.meta,
   base |-> IF s.base.tag = "Some" THEN Some(DenseWithType(s.base.val, T)) ELSE None,
   indices |-> s.indices,
   values |-> DenseWithType(s.values, T),
   elem |-> T]

\* a try_with_type that reinterprets without validating the shape
SparseTryWithType_Unchecked(s, T) == [tag |-> "Ok", val |-> SparseWithType(s, T)]

\* SparseData::try_with_type
SparseTryWithType(s, T) ==
  IF ImplValidate(T, s.meta.shape)
  THEN [tag |-> "Ok", val |-> SparseWithType(s, T)]
  ELSE [tag |-> "Err", err |-> "AccessorType", requested |-> T,
        dt |-> ShapeDataType(s.meta.shape), dim |-> ShapeDimensions(s.meta.shape)]

(* --------------------------- SparseDataIter -------------------------- *)
\* Peekable: nothing is peeked
NotPeeked == [tag |-> "NotPeeked"]

\* SparseData::iter: counter 0, a fresh IndexIter (ic) zipped with a fresh
\* DenseDataIter over values (vc), nothing peeked, a fresh base iterator (bc)
SparseIterNew == [counter |-> 0, ic |-> 0, vc |-> 0, peeked |-> NotPeeked, bc |-> 0]

\* IndexIter::next at position ic
IndexIterNext(ix, ic) ==
  IF ic < IndexCount(ix)
  THEN [ret |-> IndexGet(ix, ic), counter |-> ic + 1]
  ELSE [ret |-> None, counter |-> ic]

\* Zip::next of (IndexIter, DenseDataIter): a.next()?, then b.next()?
ZipNext(s, ic, vc) ==
  LET Pair(a, b) ==
        IF b.ret.tag # "Some"
        THEN [ret |-> b.ret, ic |-> a.counter, vc |-> b.counter]
        ELSE [ret |-> Some(<<a.ret.val, b.ret.val>>),
              ic |-> a.counter, vc |-> b.counter]
      First(a) ==
        IF a.ret.tag # "Some"
        THEN [ret |-> a.ret, ic |-> a.counter, vc |-> vc]
        ELSE Pair(a, DenseIterNext(s.values, vc))
  IN First(IndexIterNext(s.indices, ic))

\* Peekable::peek: the cached item, or the next item of the zip, cached
ReplacePeek(s, st) ==
  IF st.peeked.tag = "NotPeeked"
  THEN LET Cache(z) == [st EXCEPT !.peeked = z.ret, !.ic = z.ic, !.vc = z.vc]
       IN Cache(ZipNext(s, st.ic, st.vc))
  ELSE st

\* SparseDataIter::next: the value returned and the iterator afterwards
SparseIterNext(s, st) ==
  IF st.counter >= s.meta.count
  THEN [ret |-> None, st |-> st]
  ELSE LET FromBase(p, b) == [ret |-> b.ret, st |-> [p EXCEPT !.bc = b.counter]]
           Match(p) ==
             IF p.peeked.tag = "Panic"
             THEN [ret |-> Panic, st |-> p]
             ELSE IF p.peeked.tag = "Some" /\ p.peeked.val[1] = st.counter
                  THEN [ret |-> Some(p.peeked.val[2]),
                        st |-> [p EXCEPT !.counter = st.counter + 1,
                                         !.peeked = NotPeeked]]
                  ELSE IF s.base.tag = "Some"
                       THEN FromBase(p, DenseIterNext(s.base.val, st.bc))
                       ELSE [ret |-> Some(Zero(s.elem.d)), st |-> p]
       IN Match(ReplacePeek(s, st))

(* ------------------------------- Data -------------------------------- *)
\* Data::Dense / Data::Sparse
DataDense(d) == [tag |-> "Dense", v |-> d]

DataSparse(s) == [tag |-> "Sparse", v |-> s]

\* Data::get_raw
DataGetRaw(data, index, overflow_checks) ==
  IF data.tag = "Dense"
  THEN DenseGetRaw(data.v, index)
  ELSE SparseGetRaw(data.v, index, overflow_checks)

\* Data::get
DataGet(data, index, overflow_checks) ==
  IF data.tag = "Dense"
  THEN DenseGet(data.v, index)
  ELSE SparseGet(data.v, index, overflow_checks)

\* Data::count
DataCount(data) == data.v.meta.count

\* Data::try_with_type
DataTryWithType(data, T) ==
  IF data.tag = "Dense"
  THEN LET Wrap(r) ==
             IF r.tag = "Ok" THEN [tag |-> "Ok", val |-> DataDense(r.val)] ELSE r
       IN Wrap(DenseTryWithType(data.v, T))
  ELSE LET Wrap(r) ==
             IF r.tag = "Ok" THEN [tag |-> "Ok", val |-> DataSparse(r.val)] ELSE r
       IN Wrap(SparseTryWithType(data.v, T))

\* Data::iter: DataIter::Dense starts at counter 0, DataIter::Sparse as
\* SparseData::iter; one record holds either
DataIterNew == SparseIterNew

\* DataIter::next
DataIterNext(data, st) ==
  IF data.tag = "Dense"
  THEN LET Wrap(r) == [ret |-> r.ret, st |-> [st EXCEPT !.counter = r.counter]]
       IN Wrap(DenseIterNext(data.v, st.counter))
  ELSE SparseIterNext(data.v, st)

(* ----------------------------- Accessor ------------------------------ *)
\* Indices::load over the index view
IndicesLoad(a, view) ==
  LET Wrap(r) ==
        IF r.tag = "Ok"
        THEN [tag |-> "Ok", val |-> IndexNew(a.sparse.index_type, r.val)]
        ELSE r
  IN Wrap(DenseTryWithType(DenseNew(MetaFromSparseIndex(a), view),
                           ElemType(a.sparse.index_type, "Scalar")))

\* Values::load_untyped over the values view
ValuesLoadUntyped(a, view) == DenseNew(MetaFromSparseValues(a), view)

\* Accessor::load_untyped; vs holds the three views, each running from its
\* offset to the end of its buffer
LoadUntyped(a, vs) ==
  IF a.sparse.present
  THEN LET Build(base, indices, values) ==
             IF indices.tag = "Ok"
             THEN [tag |-> "Ok",
                   val |-> DataSparse(SparseNew(MetaFromAccessor(a), base,
                                                indices.val, values))]
             ELSE indices
       IN Build(IF a.has_view
                THEN Some(DenseNew(MetaFromAccessor(a), vs.base))
                ELSE None,
                IndicesLoad(a, vs.indices),
                ValuesLoadUntyped(a, vs.values))
  ELSE IF a.has_view
       THEN [tag |-> "Ok",
             val |-> DataDense(DenseNew(MetaFromAccessor(a), vs.base))]
       ELSE Panic

\* Accessor::load::<T>
Load(a, vs, T) ==
  LET Typed(r) == IF r.tag = "Ok" THEN DataTryWithType(r.val, T) ELSE r
  IN Typed(LoadUntyped(a, vs))

(* ------------------------ the documents checked ---------------------- *)
\* shapes of the dense accessors drawn by Init
DenseShapes == {Shape("Scalar", "U8"), Shape("Scalar", "I16"), Shape("Vec2", "U8")}

\* shapes and index types of the sparse accessors drawn by Init
SparseShapes == {Shape("Scalar", "U8"), Shape("Scalar", "U16")}

IndexTypes == {"U8", "U16"}

\* component values the encoded elements are drawn from
CompVals(t) ==
  CASE t = "U8" -> {1, 2}
    [] t = "I8" -> {1, -2}
    [] t = "U16" -> {1, 258}
    [] t = "I16" -> {1, -2}
    [] OTHER -> {1, 65539}

Items(sh) == [1..DimCount(sh.dim) -> CompVals(sh.ty)]

\* the little-endian bytes of one component of type t
EncodeComp(v, t) ==
  LET w == TypeSize(t)
      u == IF v >= 0 THEN v ELSE IF w = 1 THEN v + 256 ELSE v + 65536
  IN CASE w = 1 -> <<u % 256>>
       [] w = 2 -> <<u % 256, (u \div 256) % 256>>
       [] w = 4 -> <<u % 256, (u \div 256) % 256, (u \div 65536) % 256,
                     (u \div 16777216) % 256>>

\* the bytes of one element: its components in order
RECURSIVE EncodeItem(_, _)
EncodeItem(item, t) ==
  IF item = <<>> THEN <<>> ELSE EncodeComp(Head(item), t) \o EncodeItem(Tail(item), t)

\* the bytes of a view holding items at the given stride, each element padded
\* with zero bytes up to the stride
RECURSIVE EncodeItems(_, _, _)
EncodeItems(items, t, stride) ==
  IF items = <<>>
  THEN <<>>
  ELSE LET Pad(e) == e \o [k \in 1..(stride - Len(e)) |-> 0]
       IN Pad(EncodeItem(Head(items), t)) \o EncodeItems(Tail(items), t, stride)

\* bytes needed by n elements of elem_size bytes at the given stride
ExactLen(n, elem_size, stride) == IF n = 0 THEN 0 ELSE (n - 1) * stride + elem_size

\* the view a buffer gives from the accessor's offset to its end: the encoded
\* elements, cut or continued with zero bytes to slack bytes off the exact size
EncodeView(items, t, elem_size, stride, slack) ==
  LET exact == ExactLen(Len(items), elem_size, stride)
      len == IF exact + slack < 0 THEN 0 ELSE exact + slack
      bytes == EncodeItems(items, t, stride) \o <<0, 0>>
  IN SubSeq(bytes, 1, len)

NoSparse ==
  [present |-> FALSE, count |-> 0, index_type |-> "U8", index_stride |-> 0,
   value_stride |-> 0]

\* a dense accessor holding vals, with its view
DenseScenario(sh, vals, stride, slack, norm) ==
  LET a == [shape |-> sh, count |-> Len(vals), normalized |-> norm,
            has_view |-> TRUE, stride |-> stride, sparse |-> NoSparse]
      m == MetaFromAccessor(a)
  IN [acc |-> a,
      views |-> [base |-> EncodeView(vals, sh.ty, m.elem_size, m.stride, slack),
                 indices |-> <<>>, values |-> <<>>],
      known |-> [vals |-> vals, idx |-> <<>>, repl |-> <<>>],
      overflow_checks |-> TRUE]

\* the n base elements and the replacement values of the sparse accessors
BaseVals(n) == [k \in 1..n |-> <<10 + k>>]

ReplVals(n, t) == [k \in 1..n |-> <<(IF TypeSize(t) = 1 THEN 20 ELSE 276) + k>>]

\* a sparse accessor of count n overriding the indices idx, with its views
SparseScenario(sh, ity, n, idx, has_base, bslack, islack, vslack, norm, checks) ==
  LET a == [shape |-> sh, count |-> n, normalized |-> norm,
            has_view |-> has_base, stride |-> 0,
            sparse |-> [present |-> TRUE, count |-> Len(idx), index_type |-> ity,
                        index_stride |-> 0, value_stride |-> 0]]
      m == MetaFromAccessor(a)
      mi == MetaFromSparseIndex(a)
      mv == MetaFromSparseValues(a)
      repl == ReplVals(Len(idx), sh.ty)
      vals == IF has_base THEN BaseVals(n) ELSE <<>>
  IN [acc |-> a,
      views |-> [base |-> EncodeView(vals, sh.ty, m.elem_size, m.stride, bslack),
                 indices |-> EncodeView([k \in 1..Len(idx) |-> <<idx[k]>>], ity,
                                        TypeSize(ity), mi.stride, islack),
                 values |-> EncodeView(repl, sh.ty, mv.elem_size, mv.stride, vslack)],
      known |-> [vals |-> vals, idx |-> idx, repl |-> repl],
      overflow_checks |-> checks]

(* --------------------------- the state machine ----------------------- *)
VARIABLES
  acc,              \* the accessor being loaded
  views,            \* the byte views it reads
  known,            \* the values the views were encoded from
  overflow_checks,  \* the build panics on integer overflow (debug) or wraps
  data,             \* the result of Accessor::load
  ret,              \* the last get / get_raw call and what it returned
  it,               \* the iterator in use
  fr,               \* the find_replacement call in progress
  rt,               \* the reinterpreted data held and the call that gave it
  el,               \* an Element cursor and the last call made on it
  tr,               \* a node traversal in progress
  ld,               \* a SimpleGltfTransformer load in progress
  ms,               \* a Primitive::as_mesh call in progress
  ca                \* a load_gltf call: the buffer cache and the loads using it

vars == <<acc, views, known, overflow_checks, data, ret, it, fr, rt, el, tr, ld, ms, ca>>

\* the accessor data engine's part of the state
engine == <<acc, views, known, overflow_checks, data, ret, it, fr, rt>>

NoElement == [pc |-> "idle"]

NoTraversal == [pc |-> "idle"]

NoLoad == [pc |-> "idle"]

NoMesh == [pc |-> "idle"]

NoCache == [pc |-> "idle"]

\* the indices the calls are made with
Indexes == 0..(MaxCount + 1) \cup {UsizeMax \div 2 + 1, UsizeMax}

NoRet == [op |-> "none", index |-> 0, res |-> None]

NoIter == [pc |-> "idle", st |-> DataIterNew, out |-> <<>>, last |-> None]

NoSearch ==
  [pc |-> "idle", target |-> 0, left |-> 0, right |-> 0, probes |-> 0, res |-> None]

NoConv == [pc |-> "idle", op |-> "none", U |-> Untyped]

\* the element types the reinterpreting calls ask for
ConvTypes ==
  {ElemType("U8", "Scalar"), ElemType("U16", "Scalar"), ElemType("U8", "Vec2")}

\* the state after Accessor::load::<T> of the scenario's accessor, T being the
\* scalar or array type of the accessor's own shape
Setup(sc) ==
  /\ acc = sc.acc
  /\ views = sc.views
  /\ known = sc.known
  /\ overflow_checks = sc.overflow_checks
  /\ data = Load(sc.acc, sc.views, ElemType(sc.acc.shape.ty, sc.acc.shape.dim))

InitDense ==
  \E sh \in DenseShapes, n \in 0..MaxCount :
    \E vals \in [1..n -> Items(sh)], stride \in {0, 1, ShapeSize(sh) + 1},
       slack \in {-1, 0, 1}, norm \in BOOLEAN :
      Setup(DenseScenario(sh, vals, stride, slack, norm))

InitSparse ==
  \E sh \in SparseShapes, ity \in IndexTypes, n \in 0..MaxCount, k \in 0..MaxSparse :
    \E idx \in [1..k -> 0..MaxCount],
       b \in {<<FALSE, 0>>, <<TRUE, 0>>, <<TRUE, 1>>},
       islack \in {0, 1}, vslack \in {0, 1}, norm \in BOOLEAN,
       checks \in BOOLEAN :
      Setup(SparseScenario(sh, ity, n, idx, b[1], b[2], islack, vslack, norm, checks))

Init ==
  /\ InitDense \/ InitSparse
  /\ ret = NoRet
  /\ it = NoIter
  /\ fr = NoSearch
  /\ rt = NoConv
  /\ el = NoElement
  /\ tr = NoTraversal
  /\ ld = NoLoad
  /\ ms = NoMesh
  /\ ca = NoCache

Loaded == data.tag = "Ok"

\* no result or iterator is held and no call is in progress
AtRest == ret = NoRet /\ it = NoIter /\ fr = NoSearch /\ rt = NoConv

\* a call of Data::get_raw
CallGetRaw ==
  /\ Loaded
  /\ AtRest
  /\ \E i \in Indexes :
       ret' = [op |-> "get_raw", index |-> i,
               res |-> DataGetRaw(data.val, i, overflow_checks)]
  /\ it' = NoIter
  /\ fr' = NoSearch
  /\ UNCHANGED <<el, tr, ld, ms, ca, acc, views, known, overflow_checks, data, rt>>

\* a call of Data::get
CallGet ==
  /\ Loaded
  /\ AtRest
  /\ \E i \in Indexes :
       ret' = [op |-> "get", index |-> i,
               res |-> DataGet(data.val, i, overflow_checks)]
  /\ it' = NoIter
  /\ fr' = NoSearch
  /\ UNCHANGED <<el, tr, ld, ms, ca, acc, views, known, overflow_checks, data, rt>>

\* a call of IndexData::get on the indices of the sparse data
CallIndexGet ==
  /\ Loaded
  /\ AtRest
  /\ data.val.tag = "Sparse"
  /\ \E n \in 0..MaxSparse :
       ret' = [op |-> "index_get", index |-> n,
               res |-> IndexGet(data.val.v.indices, n)]
  /\ it' = NoIter
  /\ fr' = NoSearch
  /\ UNCHANGED <<el, tr, ld, ms, ca, acc, views, known, overflow_checks, data, rt>>

\* a call of Data::iter
CallIter ==
  /\ Loaded
  /\ AtRest
  /\ it' = [pc |-> "live", st |-> DataIterNew, out |-> <<>>, last |-> None]
  /\ ret' = NoRet
  /\ fr' = NoSearch
  /\ UNCHANGED <<el, tr, ld, ms, ca, acc, views, known, overflow_checks, data, rt>>

\* a call of DataIter::next on the iterator in use
CallNext ==
  /\ Loaded
  /\ it.pc \in {"live", "done"}
  /\ Len(it.out) < MaxEmit
  /\ LET Returned(r) ==
           [pc |-> IF r.ret.tag = "Some" THEN "live"
                   ELSE IF r.ret.tag = "None" THEN "done" ELSE "panic",
            st |-> r.st,
            out |-> IF r.ret.tag = "Some" THEN Append(it.out, r.ret.val) ELSE it.out,
            last |-> r.ret]
     IN it' = Returned(DataIterNext(data.val, it.st))
  /\ UNCHANGED <<el, tr, ld, ms, ca, acc, views, known, overflow_checks, data, ret, fr, rt>>

\* entering IndexData::find_replacement on the sparse data's indices
FindStart ==
  /\ Loaded
  /\ AtRest
  /\ data.val.tag = "Sparse"
  /\ \E i \in Indexes :
       LET Entered(e) ==
             IF e.tag = "Return"
             THEN [pc |-> "done", target |-> i, left |-> 0, right |-> 0,
                   probes |-> 0, res |-> e.ret]
             ELSE [pc |-> "loop", target |-> i, left |-> e.left,
                   right |-> e.right, probes |-> 0, res |-> None]
       IN fr' = Entered(SearchEnter(data.val.v.indices, overflow_checks))
  /\ ret' = NoRet
  /\ it' = NoIter
  /\ UNCHANGED <<el, tr, ld, ms, ca, acc, views, known, overflow_checks, data, rt>>

\* one pass of the search loop, or the final check that ends the call
FindStep ==
  /\ fr.pc = "loop"
  /\ fr.probes < MaxProbes
  /\ LET Stepped(s) ==
           IF s.tag = "Return"
           THEN [fr EXCEPT !.pc = "done", !.res = s.ret]
           ELSE [fr EXCEPT !.left = s.left, !.right = s.right,
                           !.probes = fr.probes + 1]
     IN fr' = Stepped(SearchStep(data.val.v.indices, fr.target, fr.left, fr.right,
                                 overflow_checks))
  /\ UNCHANGED <<el, tr, ld, ms, ca, acc, views, known, overflow_checks, data, ret, it, rt>>

\* the caller drops the result or the iterator it holds; a call in progress
\* cannot be dropped
Drop ==
  /\ ~AtRest
  /\ fr.pc # "loop"
  /\ ret' = NoRet
  /\ it' = NoIter
  /\ fr' = NoSearch
  /\ rt' = NoConv
  /\ UNCHANGED <<el, tr, ld, ms, ca, acc, views, known, overflow_checks, data>>

\* the data a reinterpreting call is made on: the data held from the last
\* such call, or the loaded data
Held == IF rt.pc = "held" THEN rt.cur ELSE data.val

\* no get, iteration or search is in progress
Quiet == ret = NoRet /\ it = NoIter /\ fr = NoSearch

\* a call of Data::try_with_type::<U>; on Err the caller keeps the source
CallTryWithType ==
  /\ Loaded
  /\ Quiet
  /\ \E U \in ConvTypes :
       LET Returned(r) ==
             [pc |-> "held", op |-> "try_with_type", U |-> U, src |-> Held,
              res |-> r, cur |-> IF r.tag = "Ok" THEN r.val ELSE Held]
       IN rt' = Returned(DataTryWithType(Held, U))
  /\ UNCHANGED <<el, tr, ld, ms, ca, acc, views, known, overflow_checks, data, ret, it, fr>>

\* a call of DenseData::with_type::<U> or SparseData::with_type::<U> on the
\* variant held
CallWithType ==
  /\ Loaded
  /\ Quiet
  /\ \E U \in ConvTypes :
       LET Returned(r) ==
             [pc |-> "held", op |-> "with_type", U |-> U, src |-> Held,
              res |-> [tag |-> "Ok", val |-> r], cur |-> r]
       IN rt' = Returned(IF Held.tag = "Dense"
                         THEN DataDense(DenseWithType(Held.v, U))
                         ELSE DataSparse(SparseWithType(Held.v, U)))
  /\ UNCHANGED <<el, tr, ld, ms, ca, acc, views, known, overflow_checks, data, ret, it, fr>>

\* a call of DenseData::as_untyped on dense data held
CallAsUntyped ==
  /\ Loaded
  /\ Quiet
  /\ Held.tag = "Dense"
  /\ LET Returned(r) ==
           [pc |-> "held", op |-> "as_untyped", U |-> Untyped, src |-> Held,
            res |-> [tag |-> "Ok", val |-> r], cur |-> r]
     IN rt' = Returned(DataDense(DenseAsUntyped(Held.v)))
  /\ UNCHANGED <<el, tr, ld, ms, ca, acc, views, known, overflow_checks, data, ret, it, fr>>

Next ==
  \/ CallGetRaw
  \/ CallGet
  \/ CallIndexGet
  \/ CallIter
  \/ CallNext
  \/ FindStart
  \/ FindStep
  \/ CallTryWithType
  \/ CallWithType
  \/ CallAsUntyped
  \/ Drop

Spec == Init /\ [][Next]_vars

(* ------------------- the Element cursor, call by call ----------------- *)
\* all 42 element shapes
AllShapes == {Shape(d, t) : d \in Dims, t \in ElementTypes}

\* every implementation of Accessible
Impls ==
  {ElemType(t, d) : t \in ElementTypes, d \in Dims}
    \cup {NamedType(n) : n \in GlamImpls \cup AttrImpls}

\* the bytes of a cursor of the given length
CursorBytes(len, seed) == [k \in 1..len |-> (seed + 37 * k) % 256]

\* the engine holds one empty accessor while the cursor is exercised
EngineAtRest ==
  /\ Setup(DenseScenario(Shape("Scalar", "U8"), <<>>, 0, 0, FALSE))
  /\ ret = NoRet
  /\ it = NoIter
  /\ fr = NoSearch
  /\ rt = NoConv

\* an Element{data, shape} as DenseData::get builds it (shape.size() bytes),
\* and cursors one byte shorter and longer
InitElement ==
  /\ EngineAtRest
  /\ \E shape \in AllShapes, slack \in {-1, 0, 1}, seed \in {0, 200} :
       el = [pc |-> "cursor", shape |-> shape,
             data |-> CursorBytes(ShapeSize(shape) + slack, seed),
             op |-> "none", U |-> Untyped, before |-> <<>>, res |-> None]
  /\ tr = NoTraversal
  /\ ld = NoLoad
  /\ ms = NoMesh
  /\ ca = NoCache

\* Element::read_u8 / read_i8 / read_u16 / read_i16 / read_u32 / read_f32 on
\* the cursor
ReadPrimitive ==
  /\ el.pc = "cursor"
  /\ \E t \in ElementTypes :
       LET Returned(r) ==
             [el EXCEPT !.op = "read", !.U = t, !.before = el.data, !.res = r,
                        !.data = IF r.tag = "Read" THEN r.rest ELSE el.data,
                        !.pc = IF r.tag = "Read" THEN "cursor" ELSE "panic"]
       IN el' = Returned(ReadPrim(el.data, t))
  /\ UNCHANGED <<engine, tr, ld, ms, ca>>

\* U::from_element on a fresh Element, for any implementation U
CallFromElement ==
  /\ el.pc = "cursor"
  /\ el.op = "none"
  /\ \E U \in Impls :
       LET Returned(r) ==
             [el EXCEPT !.op = "from_element", !.U = U, !.before = el.data,
                        !.res = r,
                        !.pc = IF r.tag = "Item" THEN "returned" ELSE "panic"]
       IN el' = Returned(ImplFromElement(U, el.data, el.shape))
  /\ UNCHANGED <<engine, tr, ld, ms, ca>>

\* ElementShape::size, data_type and dimensions of the cursor's shape, and the
\* shape built back from the latter two
CallShape ==
  /\ el.pc = "cursor"
  /\ el.op = "none"
  /\ el' = [el EXCEPT !.op = "shape", !.pc = "returned",
                      !.res = [size |-> ShapeSize(el.shape),
                               data_type |-> ShapeDataType(el.shape),
                               dimensions |-> ShapeDimensions(el.shape),
                               rebuilt |-> ElementShapeFrom(ShapeDataType(el.shape),
                                                            ShapeDimensions(el.shape))]]
  /\ UNCHANGED <<engine, tr, ld, ms, ca>>

\* the largest value of the unsigned type t
TypeMax(t) == IF t = "U8" THEN 255 ELSE 65535

\* the values norm() is called with: both ends of the type's range and their
\* neighbours
NormInputs(t) == {0, 1, TypeMax(t) \div 2, TypeMax(t) - 1, TypeMax(t)}

\* Normalizable::norm of a u8 or u16, as the attribute readers call it on a
\* component they read
CallNorm ==
  /\ el.pc = "cursor"
  /\ el.op = "none"
  /\ \E t \in {"U8", "U16"} :
       \E v \in NormInputs(t) :
         el' = [el EXCEPT !.op = "norm", !.pc = "returned", !.U = ElemType(t, "Scalar"),
                          !.before = <<v>>, !.res = Norm(v, t)]
  /\ UNCHANGED <<engine, tr, ld, ms, ca>>

\* U::zero(shape) with the cursor's shape, as SparseData::get calls it for
\* an element without base and replacement
CallZero ==
  /\ el.pc = "cursor"
  /\ el.op = "none"
  /\ \E U \in Impls :
       el' = [el EXCEPT !.op = "zero", !.pc = "returned", !.U = U,
                        !.res = ImplZero(U, el.shape)]
  /\ UNCHANGED <<engine, tr, ld, ms, ca>>

NextElement ==
  \/ ReadPrimitive
  \/ CallFromElement
  \/ CallShape
  \/ CallNorm
  \/ CallZero

SpecElement == InitElement /\ [][NextElement]_vars

(* --------------------------- node traversals -------------------------- *)
\* number of nodes of the documents traversed
MaxNodes == 4

\* calls of next() made on a traversal after its first None
MaxNones == 2

Nodes == 0..(MaxNodes - 1)

\* the members of a set of nodes in ascending order
RECURSIVE Ascend(_)
Ascend(S) ==
  IF S = {}
  THEN <<>>
  ELSE LET m == CHOOSE x \in S : \A y \in S : x <= y
       IN <<m>> \o Ascend(S \ {m})

\* the node hierarchies traversed: each node lists its children, every child
\* having a larger index than its parent; a node may be listed by several
\* parents
Hierarchies ==
  {[n \in Nodes |-> Ascend({c \in Nodes : <<n, c>> \in E})] :
     E \in SUBSET {e \in Nodes \X Nodes : e[1] < e[2]}}

\* the root nodes of the scene, as Scene::nodes gives them
RootLists == {<<0>>, <<0, 1>>}

\* a sequence back to front
Reversed(q) == [k \in 1..Len(q) |-> q[Len(q) + 1 - k]]

\* Traversal::new / FilteredDepthFirst::new: roots.map(|n| (n.index(), 0))
NewStack(roots) == [k \in 1..Len(roots) |-> <<roots[k], 0>>]

\* the stack with the child offset of its top entry set
SetTopOffset(stack, off) == [stack EXCEPT ![Len(stack)] = <<stack[Len(stack)][1], off>>]

\* a next that returns a node as soon as one of its children was walked
RECURSIVE DepthFirstNext_AfterFirstChild(_, _)
DepthFirstNext_AfterFirstChild(ch, stack) ==
  IF stack = <<>>
  THEN [ret |-> None, stack |-> stack]
  ELSE LET Visit(node, off) ==
             IF off >= Len(ch[node]) \/ off >= 1
             THEN [ret |-> Some(node), stack |-> SubSeq(stack, 1, Len(stack) - 1)]
             ELSE DepthFirstNext_AfterFirstChild(ch,
                    Append(SetTopOffset(stack, off + 1), <<ch[node][off + 1], 0>>))
       IN Visit(stack[Len(stack)][1], stack[Len(stack)][2])

\* DepthFirst::next: the node returned and the stack afterwards
RECURSIVE DepthFirstNext(_, _)
DepthFirstNext(ch, stack) ==
  IF stack = <<>>
  THEN [ret |-> None, stack |-> stack]
  ELSE LET Visit(node, off) ==
             IF off >= Len(ch[node])
             THEN [ret |-> Some(node), stack |-> SubSeq(stack, 1, Len(stack) - 1)]
             ELSE DepthFirstNext(ch,
                    Append(SetTopOffset(stack, off + 1), <<ch[node][off + 1], 0>>))
       IN Visit(stack[Len(stack)][1], stack[Len(stack)][2])

\* the inner `while *child_offset < node.children().len()` of
\* FilteredDepthFirst::next: the offset it stops at and whether it stopped on
\* a child the filter accepts (which is then at offset - 1)
RECURSIVE ScanChildren(_, _, _, _)
ScanChildren(ch, keep, node, off) ==
  IF off < Len(ch[node])
  THEN IF ch[node][off + 1] \in keep
       THEN [found |-> TRUE, off |-> off + 1]
       ELSE ScanChildren(ch, keep, node, off + 1)
  ELSE [found |-> FALSE, off |-> off]

\* FilteredDepthFirst::next; keep is the set of nodes the filter accepts
RECURSIVE FilteredNext(_, _, _)
FilteredNext(ch, keep, stack) ==
  IF stack = <<>>
  THEN [ret |-> None, stack |-> stack]
  ELSE LET Descend(node, sc) ==
             IF sc.found
             THEN FilteredNext(ch, keep,
                    Append(SetTopOffset(stack, sc.off), <<ch[node][sc.off], 0>>))
             ELSE [ret |-> Some(node), stack |-> SubSeq(stack, 1, Len(stack) - 1)]
           Visit(node, off) == Descend(node, ScanChildren(ch, keep, node, off))
       IN Visit(stack[Len(stack)][1], stack[Len(stack)][2])

\* Scene::walk_nodes::<DepthFirst>() of a scene
InitDepthFirst ==
  \E ch \in Hierarchies, roots \in RootLists :
    tr = [pc |-> "walk", kind |-> "DepthFirst", ch |-> ch, roots |-> roots,
          keep |-> Nodes, stack |-> NewStack(roots), out |-> <<>>, nones |-> 0]

\* the traversal SimpleGltfTransformer::load makes of a scene:
\* FilteredDepthFirst::new(document, scene.nodes(), scene, &node_filter)
InitFiltered ==
  \E ch \in Hierarchies, roots \in RootLists, keep \in SUBSET Nodes :
    tr = [pc |-> "walk", kind |-> "Filtered", ch |-> ch, roots |-> roots,
          keep |-> keep, stack |-> NewStack(roots), out |-> <<>>, nones |-> 0]

InitScene ==
  /\ EngineAtRest
  /\ el = NoElement
  /\ InitDepthFirst \/ InitFiltered
  /\ ld = NoLoad
  /\ ms = NoMesh
  /\ ca = NoCache

\* next() may be called while the traversal lasts and again after its end
Callable == tr.pc = "walk" \/ (tr.pc = "done" /\ tr.nones <= MaxNones)

\* what a next() call leaves: the node emitted, or the end of the traversal
AfterNext(r) ==
  [tr EXCEPT !.stack = r.stack,
             !.out = IF r.ret.tag = "Some" THEN Append(tr.out, r.ret.val) ELSE tr.out,
             !.nones = IF r.ret.tag = "Some" THEN @ ELSE @ + 1,
             !.pc = IF r.ret.tag = "Some" THEN "walk" ELSE "done"]

\* a call of DepthFirst::next
DepthFirstCallNext ==
  /\ Callable
  /\ tr.kind = "DepthFirst"
  /\ tr' = AfterNext(DepthFirstNext(tr.ch, tr.stack))
  /\ UNCHANGED <<engine, el, ld, ms, ca>>

\* a call of FilteredDepthFirst::next, as the `for node in filtered_traversal`
\* of load makes it
FilteredCallNext ==
  /\ Callable
  /\ tr.kind = "Filtered"
  /\ tr' = AfterNext(FilteredNext(tr.ch, tr.keep, tr.stack))
  /\ UNCHANGED <<engine, el, ld, ms, ca>>

\* node.name().map(String::from).unwrap_or_else(|| format!("Node{}", index))
\* of node n; named is the set of nodes the document gives a name
NodeName(named, n) ==
  IF n \in named THEN [tag |-> "name", of |-> n] ELSE [tag |-> "Node", index |-> n]

\* `for child in node.children() { paths.get_mut(&child.index()).unwrap()
\* .push(name.clone()) }`
RECURSIVE PushToChildren(_, _, _)
PushToChildren(paths, children, name) ==
  IF children = <<>>
  THEN [tag |-> "Ok", val |-> paths]
  ELSE IF Head(children) \notin DOMAIN paths
       THEN Panic
       ELSE PushToChildren([paths EXCEPT ![Head(children)] = Append(@, name)],
                           Tail(children), name)

\* the loop `for node in DepthFirst::new(*self, roots, ())` of node_paths and
\* the reversal that ends it
RECURSIVE NodePathsLoop(_, _, _, _)
NodePathsLoop(ch, named, stack, paths) ==
  LET After(r, pushed) ==
        IF pushed.tag = "Ok" THEN NodePathsLoop(ch, named, r.stack, pushed.val) ELSE pushed
      Body(r) ==
        IF r.ret.tag = "None"
        THEN [tag |-> "Ok", val |-> [n \in DOMAIN paths |-> Reversed(paths[n])]]
        ELSE After(r, PushToChildren((r.ret.val :> <<NodeName(named, r.ret.val)>>) @@ paths,
                                     ch[r.ret.val], NodeName(named, r.ret.val)))
  IN Body(DepthFirstNext(ch, stack))

\* the closure Document::node_paths initialises the cache with
NodePaths(ch, roots, named) == NodePathsLoop(ch, named, NewStack(roots), <<>>)

\* Document::node_paths on a document whose scenes list the roots
CallNodePaths ==
  /\ tr.pc = "walk"
  /\ tr.kind = "DepthFirst"
  /\ tr.out = <<>>
  /\ \E named \in SUBSET Nodes :
       tr' = [pc |-> "paths", kind |-> tr.kind, ch |-> tr.ch, roots |-> tr.roots,
              keep |-> tr.keep, stack |-> tr.stack, out |-> tr.out, nones |-> 0,
              named |-> named, paths |-> NodePaths(tr.ch, tr.roots, named)]
  /\ UNCHANGED <<engine, el, ld, ms, ca>>

NextScene ==
  \/ DepthFirstCallNext
  \/ FilteredCallNext
  \/ CallNodePaths

SpecScene == InitScene /\ [][NextScene]_vars

\* a DepthFirst traversal alone, whose consumer (`for node in ...`) keeps
\* calling next()
InitWalk ==
  /\ EngineAtRest
  /\ el = NoElement
  /\ InitDepthFirst
  /\ ld = NoLoad
  /\ ms = NoMesh
  /\ ca = NoCache

SpecWalk == InitWalk /\ [][DepthFirstCallNext]_vars /\ WF_vars(DepthFirstCallNext)

(* ------------------ SimpleGltfTransformer::load: materials ------------ *)
\* largest number of materials and of primitives of the documents loaded
MaxMaterials == 2

MaxPrims == 3

\* primitive.material().index(): Some(index), or None for a primitive
\* without a material
DefaultMaterial == None

\* the handle add_labeled_asset gives for "Material{index}", and the one for
\* "Material/Default" made from the result of the n-th default_material call
MaterialHandle(index) == [label |-> "Material", index |-> index]

DefaultHandle(n) == [label |-> "Material/Default", index |-> n]

\* Vec::get(index).cloned() on the materials vector
MaterialsGet(materials, index) ==
  IF index < Len(materials) THEN Some(materials[index + 1]) ELSE None

\* a selection that asks default_material again for every primitive without
\* a material
SelectMaterial_NoCache(materials, default_material, mat, calls, result) ==
  IF mat # DefaultMaterial
  THEN [mat_handle |-> MaterialsGet(materials, mat.val),
        default_material |-> default_material, calls |-> calls, failed |-> FALSE]
  ELSE IF result = "Err"
       THEN [mat_handle |-> None, default_material |-> default_material,
             calls |-> calls + 1, failed |-> TRUE]
       ELSE IF result = "Some"
            THEN [mat_handle |-> Some(DefaultHandle(calls + 1)),
                  default_material |-> Some(Some(DefaultHandle(calls + 1))),
                  calls |-> calls + 1, failed |-> FALSE]
            ELSE [mat_handle |-> None, default_material |-> Some(None),
                  calls |-> calls + 1, failed |-> FALSE]

\* step 2.1 of load: the material handle of a primitive.  default_material
\* is the cache (None: not asked yet), calls counts the invocations of
\* SimpleGltfTransformer::default_material and result is what an invocation
\* gives: "Some" (a material), "None" or "Err"
SelectMaterial(materials, default_material, mat, calls, result) ==
  IF mat # DefaultMaterial
  THEN [mat_handle |-> MaterialsGet(materials, mat.val),
        default_material |-> default_material, calls |-> calls, failed |-> FALSE]
  ELSE IF default_material.tag = "Some"
       THEN [mat_handle |-> default_material.val,
             default_material |-> default_material, calls |-> calls,
             failed |-> FALSE]
       ELSE IF result = "Err"
            THEN [mat_handle |-> None, default_material |-> default_material,
                  calls |-> calls + 1, failed |-> TRUE]
            ELSE IF result = "Some"
                 THEN [mat_handle |-> Some(DefaultHandle(calls + 1)),
                       default_material |-> Some(Some(DefaultHandle(calls + 1))),
                       calls |-> calls + 1, failed |-> FALSE]
                 ELSE [mat_handle |-> None, default_material |-> Some(None),
                       calls |-> calls + 1, failed |-> FALSE]

\* a document with nmat materials whose primitives, over all meshes in
\* order, reference the materials prims; load has just been entered
InitLoad ==
  /\ EngineAtRest
  /\ el = NoElement
  /\ tr = NoTraversal
  /\ ms = NoMesh
  /\ ca = NoCache
  /\ \E nmat \in 0..MaxMaterials, n \in 0..MaxPrims :
       \E prims \in [1..n -> {Some(k) : k \in 0..(nmat - 1)} \cup {DefaultMaterial}] :
         ld = [pc |-> "materials", nmat |-> nmat, prims |-> prims, pos |-> 0,
               materials |-> <<>>, default_material |-> None, calls |-> 0,
               selected |-> <<>>, primitives |-> <<>>]

\* step 1 of load: process_material and add_labeled_asset for each material;
\* an Err of process_material ends the load
ProcessMaterials ==
  /\ ld.pc = "materials"
  /\ \E ok \in BOOLEAN :
       ld' = IF ok
             THEN [ld EXCEPT !.pc = "meshes",
                             !.materials = [k \in 1..ld.nmat |-> MaterialHandle(k - 1)]]
             ELSE [ld EXCEPT !.pc = "failed"]
  /\ UNCHANGED <<engine, el, tr, ms, ca>>

\* one pass of `for primitive in mesh.primitives()`: the material handle is
\* selected, then process_primitive keeps the primitive ("Some"), filters it
\* ("None") or fails ("Err")
ProcessPrimitive ==
  /\ ld.pc = "meshes"
  /\ ld.pos < Len(ld.prims)
  /\ \E result \in {"Some", "None", "Err"}, prim \in {"Some", "None", "Err"} :
       LET Pass(sel) ==
             IF sel.failed
             THEN [ld EXCEPT !.pc = "failed", !.calls = sel.calls]
             ELSE [ld EXCEPT
                     !.pc = IF prim = "Err" THEN "failed" ELSE "meshes",
                     !.pos = ld.pos + 1,
                     !.default_material = sel.default_material,
                     !.calls = sel.calls,
                     !.selected = Append(ld.selected,
                                         [mat |-> ld.prims[ld.pos + 1],
                                          mat_handle |-> sel.mat_handle]),
                     !.primitives = IF prim = "Some"
                                    THEN Append(ld.primitives,
                                                [index |-> ld.pos,
                                                 material |-> sel.mat_handle])
                                    ELSE ld.primitives]
       IN ld' = Pass(SelectMaterial(ld.materials, ld.default_material,
                                    ld.prims[ld.pos + 1], ld.calls, result))
  /\ UNCHANGED <<engine, el, tr, ms, ca>>

\* all meshes are processed
FinishMeshes ==
  /\ ld.pc = "meshes"
  /\ ld.pos = Len(ld.prims)
  /\ ld' = [ld EXCEPT !.pc = "done"]
  /\ UNCHANGED <<engine, el, tr, ms, ca>>

NextLoad ==
  \/ ProcessMaterials
  \/ ProcessPrimitive
  \/ FinishMeshes

SpecLoad == InitLoad /\ [][NextLoad]_vars

(* ---------------------- Primitive::as_mesh --------------------------- *)
\* attributes a primitive of the checked documents has at most
MaxAttrs == 2

\* gltf::Semantic values, in the order Primitive::attributes yields them
Semantic(kind, set) == [kind |-> kind, set |-> set]

Semantics ==
  <<Semantic("Positions", 0), Semantic("Normals", 0), Semantic("Tangents", 0),
    Semantic("Colors", 0), Semantic("Colors", 1), Semantic("TexCoords", 0),
    Semantic("TexCoords", 1), Semantic("TexCoords", 2), Semantic("Joints", 0),
    Semantic("Weights", 0)>>

\* the shapes of the attribute accessors, and what loading their buffer gives
AttrShapes == {Shape("Vec3", "F32"), Shape("Vec2", "F32"), Shape("Vec4", "U8")}

BufferOutcomes == {"Ok", "ReadAssetBytesError"}

\* the arms of the match on the semantic: the Accessible type the accessor is
\* loaded as and the mesh attribute it becomes; None for the `_ => continue` arm
AttrArm(sem) ==
  CASE sem.kind = "Positions" ->
         Some([T |-> NamedType("AttrPosition"), attr |-> "ATTRIBUTE_POSITION"])
    [] sem.kind = "Normals" ->
         Some([T |-> ElemType("F32", "Vec3"), attr |-> "ATTRIBUTE_NORMAL"])
    [] sem.kind = "Tangents" ->
         Some([T |-> ElemType("F32", "Vec3"), attr |-> "ATTRIBUTE_TANGENT"])
    [] sem.kind = "TexCoords" /\ sem.set \in 0..1 ->
         Some([T |-> NamedType("AttrTexCoord"),
               attr |-> IF sem.set = 0 THEN "ATTRIBUTE_UV_0" ELSE "ATTRIBUTE_UV_1"])
    [] sem.kind = "Colors" /\ sem.set = 0 ->
         Some([T |-> NamedType("AttrColor"), attr |-> "ATTRIBUTE_COLOR"])
    [] sem.kind = "Joints" /\ sem.set = 0 ->
         Some([T |-> NamedType("AttrJointIndex"), attr |-> "ATTRIBUTE_JOINT_INDEX"])
    [] sem.kind = "Weights" /\ sem.set = 0 ->
         Some([T |-> NamedType("AttrJointWeight"), attr |-> "ATTRIBUTE_JOINT_WEIGHT"])
    [] OTHER -> None

\* Accessor::load::<T> of a one-element accessor a primitive refers to: the
\* buffer is loaded first, and its error is the load's error
AccessorLoad(a, T) ==
  IF a.buffer # "Ok"
  THEN [tag |-> "Err", err |-> a.buffer]
  ELSE LET Of(sc) == Load(sc.acc, sc.views, T)
       IN Of(DenseScenario(a.shape, <<[k \in 1..DimCount(a.shape.dim) |-> 1]>>,
                           0, 1, FALSE))

\* x.iter().collect(): next() until it gives None
RECURSIVE Collect(_, _, _)
Collect(x, st, fuel) ==
  IF fuel = 0
  THEN Hang
  ELSE LET More(item, rest) ==
             IF rest.tag = "Ok"
             THEN [tag |-> "Ok", val |-> <<item>> \o rest.val]
             ELSE rest
           Step(r) ==
             CASE r.ret.tag = "Some" -> More(r.ret.val, Collect(x, r.st, fuel - 1))
               [] r.ret.tag = "None" -> [tag |-> "Ok", val |-> <<>>]
               [] OTHER -> r.ret
       IN Step(DataIterNext(x, st))

\* a check_accessor! that returns every error of the load, the type error too
CheckAccessor_ReturnsTypeErrors(r) ==
  CASE r.tag = "Ok" -> Collect(r.val, DataIterNew, DataCount(r.val) + 1)
    [] r.tag = "Err" -> [tag |-> "return", err |-> r]
    [] OTHER -> r

\* the macro check_accessor!: the collected values, `continue` on
\* Error::AccessorType, `return Err(e)` on any other error
CheckAccessor(r) ==
  CASE r.tag = "Ok" -> Collect(r.val, DataIterNew, DataCount(r.val) + 1)
    [] r.tag = "Err" /\ r.err = "AccessorType" -> [tag |-> "continue"]
    [] r.tag = "Err" -> [tag |-> "return", err |-> r]
    [] OTHER -> r

\* Primitive::topology
Topology(mode) ==
  IF mode \in {"Points", "Lines", "LineStrip", "Triangles", "TriangleStrip"}
  THEN [tag |-> "Ok", val |-> mode]
  ELSE [tag |-> "Err", err |-> "UnsupportedPrimitive", mode |-> mode]

\* the primitives checked: increasing picks of Semantics, each with an
\* accessor; the mode, and the index accessor if any
InitMesh ==
  /\ EngineAtRest
  /\ el = NoElement
  /\ tr = NoTraversal
  /\ ld = NoLoad
  /\ ca = NoCache
  /\ \E n \in 0..MaxAttrs :
       \E pick \in {p \in [1..n -> 1..Len(Semantics)] :
                      \A i \in 1..n, j \in 1..n : i < j => p[i] < p[j]} :
         \E sh \in [1..n -> AttrShapes], b \in [1..n -> BufferOutcomes] :
           \E mode \in {"Triangles", "LineLoop"},
              indices \in {None} \cup
                 {Some([shape |-> s, buffer |-> o]) :
                    s \in {Shape("Scalar", "U8"), Shape("Scalar", "U16"),
                           Shape("Scalar", "U32"), Shape("Vec2", "U8")},
                    o \in BufferOutcomes} :
             ms = [pc |-> "enter", mode |-> mode,
                   attrs |-> [k \in 1..n |-> [sem |-> Semantics[pick[k]],
                                              shape |-> sh[k], buffer |-> b[k]]],
                   indices |-> indices, pos |-> 0, at |-> "topology",
                   mesh |-> <<>>, mesh_indices |-> None, res |-> None]

\* as_mesh up to its loop: BevyMesh::new(self.topology()?, asset_usage)
AsMeshEnter ==
  /\ ms.pc = "enter"
  /\ LET Start(t) ==
           IF t.tag = "Ok"
           THEN ms' = [ms EXCEPT !.pc = "attributes", !.at = "attribute"]
           ELSE ms' = [ms EXCEPT !.pc = "err", !.res = t]
     IN Start(Topology(ms.mode))
  /\ UNCHANGED <<engine, el, tr, ld, ca>>

\* one pass of the loop over self.raw.attributes()
AsMeshAttribute ==
  /\ ms.pc = "attributes"
  /\ ms.pos < Len(ms.attrs)
  /\ LET a == ms.attrs[ms.pos + 1]
         Pass(arm, c) ==
           CASE c.tag = "Ok" ->
                  ms' = [ms EXCEPT !.pos = @ + 1,
                                   !.mesh = Append(@, [attr |-> arm.attr, values |-> c.val])]
             [] c.tag = "continue" -> ms' = [ms EXCEPT !.pos = @ + 1]
             [] c.tag = "return" -> ms' = [ms EXCEPT !.pos = @ + 1, !.pc = "err", !.res = c.err]
             [] OTHER -> ms' = [ms EXCEPT !.pos = @ + 1, !.pc = "panic", !.res = c]
         Arm(arm) ==
           IF arm.tag = "None"
           THEN ms' = [ms EXCEPT !.pos = @ + 1]
           ELSE Pass(arm.val, CheckAccessor(AccessorLoad(a, arm.val.T)))
     IN Arm(AttrArm(a.sem))
  /\ UNCHANGED <<engine, el, tr, ld, ca>>

\* the index accessor, after the loop, and Ok(mesh)
AsMeshIndices ==
  /\ ms.pc = "attributes"
  /\ ms.pos = Len(ms.attrs)
  /\ LET here == [ms EXCEPT !.at = "indices"]
         Insert(kind, c) ==
           CASE c.tag = "Ok" ->
                  ms' = [here EXCEPT !.pc = "ok",
                                   !.mesh_indices = Some([kind |-> kind, values |-> c.val]),
                                   !.res = [tag |-> "Ok"]]
             [] OTHER -> ms' = [here EXCEPT !.pc = "panic", !.res = c]
         Try(kind, r) ==
           CASE r.tag = "Ok" ->
                  Insert(kind, Collect(r.val, DataIterNew, DataCount(r.val) + 1))
             [] r.tag = "Err" -> ms' = [here EXCEPT !.pc = "err", !.res = r]
             [] OTHER -> ms' = [here EXCEPT !.pc = "panic", !.res = r]
         Index(a) ==
           CASE a.shape = Shape("Scalar", "U8") ->
                  Try("Indices::U16", AccessorLoad(a, ElemType("U8", "Scalar")))
             [] a.shape = Shape("Scalar", "U16") ->
                  Try("Indices::U16", AccessorLoad(a, ElemType("U16", "Scalar")))
             [] a.shape = Shape("Scalar", "U32") ->
                  Try("Indices::U32", AccessorLoad(a, ElemType("U32", "Scalar")))
             [] OTHER -> ms' = [here EXCEPT !.pc = "panic", !.res = Panic]
     IN IF ms.indices.tag = "None"
        THEN ms' = [here EXCEPT !.pc = "ok", !.res = [tag |-> "Ok"]]
        ELSE Index(ms.indices.val)
  /\ UNCHANGED <<engine, el, tr, ld, ca>>

NextMesh ==
  \/ AsMeshEnter
  \/ AsMeshAttribute
  \/ AsMeshIndices

SpecMesh == InitMesh /\ [][NextMesh]_vars

(* ------------------------------ properties --------------------------- *)
IsDense == Loaded /\ data.val.tag = "Dense"

IsSparse == Loaded /\ data.val.tag = "Sparse"

\* the index array is strictly ascending
Ascending(idx) == \A p \in 1..(Len(idx) - 1) : idx[p] < idx[p + 1]

\* the overridden indices are indices of the accessor
InRange(idx, n) == \A p \in 1..Len(idx) : idx[p] < n

\* the position of index i in the index array, if it is stored there
Stored(idx, i) == \E p \in 1..Len(idx) : idx[p] = i

PositionOf(idx, i) == (CHOOSE p \in 1..Len(idx) : idx[p] = i) - 1

\* the view of d ends exactly with its last element
ExactView(d) == Len(d.view) = ExactLen(d.meta.count, d.meta.elem_size, d.meta.stride)

\* the view of d runs on past its last element
RoomyView(d) == Len(d.view) > ExactLen(d.meta.count, d.meta.elem_size, d.meta.stride)

\* the elements a sparse accessor stands for: the replacement where the index
\* is overridden, else the base element, else zero
Overlay(k) ==
  IF Stored(known.idx, k)
  THEN known.repl[PositionOf(known.idx, k) + 1]
  ELSE IF acc.has_view THEN known.vals[k + 1] ELSE Zero(acc.shape.dim)

OverlaySeq == [k \in 1..acc.count |-> Overlay(k - 1)]

\* C1: a sparse iterator's counter equals the number of elements it has
\* produced, it never produces more than meta.count elements, and when it
\* returns None it has produced exactly meta.count
C1_CounterCountsElements ==
  (IsSparse /\ it.pc \in {"live", "done"}) =>
    /\ it.st.counter = Len(it.out)
    /\ Len(it.out) <= acc.count
    /\ (it.pc = "done" => Len(it.out) = acc.count)

\* C2: on a strictly ascending index array every pass of the search loop that
\* does not return strictly shrinks the interval [left, right]
C2_EachProbeShrinks ==
  [][(Ascending(known.idx) /\ fr.pc = "loop" /\ fr'.pc = "loop")
       => (fr'.right - fr'.left < fr.right - fr.left)]_vars

\* C3: on a strictly ascending index array find_replacement returns Some(p)
\* when the target is stored at position p, and None when it is not stored
C3_FindsExactlyStored ==
  (IsSparse /\ Ascending(known.idx) /\ fr.pc = "done") =>
    fr.res = IF Stored(known.idx, fr.target)
             THEN Some(PositionOf(known.idx, fr.target))
             ELSE None

\* C4: dense get_raw is None at count and beyond; at count - 1 it is Some when
\* the view is exactly (count-1)*stride + elem_size bytes long and None when
\* the view is one byte shorter
C4_DenseBounds ==
  (IsDense /\ ret.op = "get_raw") =>
    LET d == data.val.v
        exact == ExactLen(d.meta.count, d.meta.elem_size, d.meta.stride)
    IN /\ (ret.index >= d.meta.count => ret.res = None)
       /\ (d.meta.count > 0 /\ ret.index = d.meta.count - 1 /\ Len(d.view) = exact
             => ret.res.tag = "Some")
       /\ (d.meta.count > 0 /\ ret.index = d.meta.count - 1 /\ Len(d.view) = exact - 1
             => ret.res = None)

\* C5: dense get_raw never panics, and when it returns Some(s) then
\* index < count, the bytes index*stride .. index*stride + elem_size lie
\* inside the view, and s is exactly those bytes
C5_RawInsideView ==
  (IsDense /\ ret.op = "get_raw") =>
    LET d == data.val.v
        from == ret.index * d.meta.stride
    IN /\ ret.res.tag \in {"Some", "None"}
       /\ (ret.res.tag = "Some" =>
             /\ ret.index < d.meta.count
             /\ from + d.meta.elem_size <= Len(d.view)
             /\ Len(ret.res.val) = d.meta.elem_size
             /\ \A k \in 1..d.meta.elem_size : ret.res.val[k] = d.view[from + k])

\* C5 witness: get_raw returned an element past the first of an interleaved
\* (stride > elem_size) view
C5_Witness ==
  /\ IsDense
  /\ ret.op = "get_raw"
  /\ ret.res.tag = "Some"
  /\ ret.index >= 1
  /\ data.val.v.meta.stride > data.val.v.meta.elem_size

\* C6: over a view exactly large enough for the N encoded values, a finished
\* dense iteration has yielded exactly those values in order, and get(i)
\* returns the i-th of them for every i < N
C6_DenseRoundTrip ==
  (IsDense /\ ExactView(data.val.v)
     /\ data.val.v.meta.stride >= data.val.v.meta.elem_size) =>
    /\ (it.pc = "done" => it.out = known.vals)
    /\ (ret.op = "get" /\ ret.index < acc.count
          => ret.res = Some(known.vals[ret.index + 1]))

\* C7: for i < count, sparse get(i) / get_raw(i) is the replacement value at
\* position p when the (strictly ascending) index array stores i at p, else
\* the base element i when there is a base view, else zero
C7_OverridePriority ==
  (IsSparse /\ Ascending(known.idx) /\ ret.op \in {"get", "get_raw"}
     /\ ret.index < acc.count) =>
    LET s == data.val.v
        i == ret.index
    IN IF ret.op = "get"
       THEN ret.res = IF Stored(known.idx, i)
                      THEN DenseGet(s.values, PositionOf(known.idx, i))
                      ELSE IF s.base.tag = "Some"
                           THEN DenseGet(s.base.val, i)
                           ELSE Some(Zero(s.elem.d))
       ELSE ret.res = IF Stored(known.idx, i)
                      THEN DenseGetRaw(s.values, PositionOf(known.idx, i))
                      ELSE IF s.base.tag = "Some"
                           THEN DenseGetRaw(s.base.val, i)
                           ELSE Some([k \in 1..s.meta.elem_size |-> 0])

\* C8: with a base view and strictly ascending overrides, a finished sparse
\* iteration has yielded count elements, the replacement at each overridden
\* position and the base element of the same index elsewhere.  Stated for
\* views that run on past their last element, where every element is readable
C8_IterMatchesOverlay ==
  (IsSparse /\ acc.has_view /\ Ascending(known.idx) /\ InRange(known.idx, acc.count)
     /\ RoomyView(data.val.v.base.val) /\ RoomyView(data.val.v.indices.d)
     /\ RoomyView(data.val.v.values) /\ it.pc = "done") =>
    it.out = OverlaySeq

\* C9: with no base view and strictly ascending overrides, a sparse iteration
\* never yields more than count elements, and when finished it has yielded
\* the replacement at each overridden position and zero elsewhere
C9_NoBaseIter ==
  (IsSparse /\ ~acc.has_view /\ Ascending(known.idx) /\ InRange(known.idx, acc.count)
     /\ RoomyView(data.val.v.indices.d) /\ RoomyView(data.val.v.values)
     /\ it.pc \in {"live", "done"}) =>
    /\ Len(it.out) <= acc.count
    /\ (it.pc = "done" => it.out = OverlaySeq)

\* C10: get(i) and get_raw(i) return None for every i >= count(), on dense
\* and on sparse data
C10_OutOfRangeIsNone ==
  (Loaded /\ ret.op \in {"get", "get_raw"} /\ ret.index >= DataCount(data.val)) =>
    ret.res = None

\* the reinterpreted data b borrows the very views of a: the same variant, and
\* the same base, index and value views with their metas
SameViews(a, b) ==
  /\ a.tag = b.tag
  /\ IF a.tag = "Dense"
     THEN a.v.view = b.v.view
     ELSE /\ a.v.base.tag = b.v.base.tag
          /\ (a.v.base.tag = "Some" =>
                /\ a.v.base.val.view = b.v.base.val.view
                /\ a.v.base.val.meta = b.v.base.val.meta)
          /\ a.v.indices = b.v.indices
          /\ a.v.values.view = b.v.values.view
          /\ a.v.values.meta = b.v.values.meta

\* C11: try_with_type::<U>() returns Err(AccessorType{requested U, the
\* accessor's data type and dimensions}) exactly when U does not validate the
\* shape; otherwise Ok with the same meta and the same borrowed views
C11_TryWithTypeValidates ==
  (Loaded /\ rt.op = "try_with_type") =>
    IF rt.U.t = acc.shape.ty /\ rt.U.d = acc.shape.dim
    THEN /\ rt.res.tag = "Ok"
         /\ rt.res.val.v.meta = rt.src.v.meta
         /\ rt.res.val.v.elem = rt.U
         /\ SameViews(rt.src, rt.res.val)
    ELSE rt.res = [tag |-> "Err", err |-> "AccessorType", requested |-> rt.U,
                   dt |-> ShapeDataType(acc.shape),
                   dim |-> ShapeDimensions(acc.shape)]

\* C11 witness: try_with_type on sparse data refused a type of the wrong
\* dimension
C11_Witness ==
  /\ Loaded
  /\ rt.op = "try_with_type"
  /\ rt.src.tag = "Sparse"
  /\ rt.U.d # acc.shape.dim
  /\ rt.res.tag = "Err"

\* C14: after any sequence of try_with_type, with_type and as_untyped calls
\* the meta of the data held (shape, elem_size, stride, count, normalized) is
\* the meta the accessor was loaded with
C14_MetaPreserved ==
  (Loaded /\ rt.pc = "held") =>
    /\ rt.cur.v.meta = MetaFromAccessor(acc)
    /\ rt.cur.v.meta = rt.src.v.meta
    /\ rt.cur.v.meta.normalized = acc.normalized
    /\ (rt.cur.tag = "Sparse" =>
          /\ rt.cur.v.values.meta = MetaFromSparseValues(acc)
          /\ (rt.cur.v.base.tag = "Some" =>
                rt.cur.v.base.val.meta = MetaFromAccessor(acc)))

\* C14 witness: a normalized accessor's data reinterpreted a second time, the
\* first call having changed its element type
C14_Witness ==
  /\ Loaded
  /\ rt.pc = "held"
  /\ acc.normalized
  /\ rt.op \in {"as_untyped", "with_type"}
  /\ rt.src.v.elem # data.val.v.elem
  /\ rt.cur.v.elem # rt.src.v.elem

\* C12: Accessor::load::<T> gives no AccessorType error when T accepts the
\* accessor's shape, for dense accessors and for sparse ones with any index
\* type.  (data is the result of load::<T> for the scalar / array type T of
\* the accessor's own shape.)
C12_NoTypeErrorForAcceptedType ==
  ValidateAccessor(acc.shape.ty, acc.shape.dim, acc.shape) =>
    ~(data.tag = "Err" /\ data.err = "AccessorType")

\* the number of elements next() still returns before None, from position
\* counter
RECURSIVE StillReturned(_, _)
StillReturned(d, counter) ==
  IF DenseIterNext(d, counter).ret.tag = "Some"
  THEN 1 + StillReturned(d, counter + 1)
  ELSE 0

\* C15: over a view large enough for count elements, a dense iterator's
\* len() is at every point the number of elements next() will still return,
\* and a finished iteration has returned exactly count elements
C15_DenseIterExactSize ==
  (IsDense /\ (ExactView(data.val.v) \/ RoomyView(data.val.v))
     /\ it.pc \in {"live", "done"}) =>
    /\ DenseIterLen(data.val.v, it.st.counter) = StillReturned(data.val.v, it.st.counter)
    /\ (it.pc = "done" => Len(it.out) = acc.count)

\* C13: when U::validate_accessor(shape) holds, U::from_element on a cursor
\* of exactly shape.size() bytes returns an item, with no underrun and no
\* unreachable branch, and leaves no byte unread; for the generic scalar and
\* array types validate_accessor holds exactly for the shape of the type's
\* own component type and dimension
C13_ValidatedReadIsExact ==
  (el.pc # "idle" /\ el.op = "from_element") =>
    /\ (ImplValidate(el.U, el.shape) /\ Len(el.before) = ShapeSize(el.shape)
          => el.res.tag = "Item" /\ el.res.rest = <<>>)
    /\ (el.U.d # "Named"
          => (ImplValidate(el.U, el.shape)
                <=> (el.U.t = el.shape.ty /\ el.U.d = el.shape.dim)))

\* C13 witness: AttrColor read a Vec3<u16> element of six bytes
C13_Witness ==
  /\ el.pc = "returned"
  /\ el.op = "from_element"
  /\ el.U = NamedType("AttrColor")
  /\ el.shape = Shape("Vec3", "U16")
  /\ Len(el.before) = 6
  /\ Len(el.res.item) = 4

\* width in bytes of the primitive of type t
Width(t) == IF t \in {"U8", "I8"} THEN 1 ELSE IF t \in {"U16", "I16"} THEN 2 ELSE 4

\* the little-endian value of the bytes b, read as type t
RECURSIVE LittleEndian(_)
LittleEndian(b) == IF b = <<>> THEN 0 ELSE Head(b) + 256 * LittleEndian(Tail(b))

ValueAs(b, t) ==
  IF Len(b) = 4
  THEN [hi |-> LittleEndian(SubSeq(b, 3, 4)), lo |-> LittleEndian(SubSeq(b, 1, 2))]
  ELSE IF t = "I8" /\ LittleEndian(b) >= 128 THEN LittleEndian(b) - 256
  ELSE IF t = "I16" /\ LittleEndian(b) >= 32768 THEN LittleEndian(b) - 65536
  ELSE LittleEndian(b)

\* C16: a primitive read returns the little-endian value of the first 1/1/2/
\* 2/4/4 bytes of the cursor, cuts exactly those bytes off its front and
\* leaves the shape as it was; with fewer bytes left it panics
C16_PrimitiveRead ==
  [][(el.pc = "cursor" /\ el'.pc # "idle" /\ el'.op = "read") =>
       IF Len(el.data) >= Width(el'.U)
       THEN /\ el'.res.tag = "Read"
            /\ el'.res.val = ValueAs(SubSeq(el.data, 1, Width(el'.U)), el'.U)
            /\ el'.data = SubSeq(el.data, Width(el'.U) + 1, Len(el.data))
            /\ el'.shape = el.shape
       ELSE el'.pc = "panic" /\ el'.res = Panic]_vars

\* C16 witness: read_i16 returned a negative value from a cursor that an
\* earlier read had shortened
C16_Witness ==
  /\ el.pc = "cursor"
  /\ el.op = "read"
  /\ el.U = "I16"
  /\ el.res.val < 0
  /\ Len(el.before) < ShapeSize(el.shape) - 1

\* C17: size() is component count times type size, with counts 1, 2, 3, 4,
\* 4, 9, 16 and type sizes 1, 1, 2, 2, 4, 4, for every shape; and the shape
\* built from (data_type(), dimensions()) is the shape itself
C17_ShapeSize ==
  (el.pc # "idle" /\ el.op = "shape") =>
    LET count == [Scalar |-> 1, Vec2 |-> 2, Vec3 |-> 3, Vec4 |-> 4, Mat2 |-> 4,
                  Mat3 |-> 9, Mat4 |-> 16]
        size == [U8 |-> 1, I8 |-> 1, U16 |-> 2, I16 |-> 2, U32 |-> 4, F32 |-> 4]
    IN /\ el.res.size = count[el.shape.dim] * size[el.shape.ty]
       /\ TypeSize(el.shape.ty) = size[el.shape.ty]
       /\ el.res.rebuilt = el.shape

\* C17 witness: the size of Mat3<i16> was taken
C17_Witness ==
  /\ el.pc = "returned"
  /\ el.op = "shape"
  /\ el.shape = Shape("Mat3", "I16")
  /\ el.res.size = 18

\* the post-order of the subtree of node n, children in the order listed
RECURSIVE PostOrder(_, _)
RECURSIVE PostOrderAll(_, _)
PostOrder(ch, n) == PostOrderAll(ch, ch[n]) \o <<n>>

PostOrderAll(ch, ns) ==
  IF ns = <<>> THEN <<>> ELSE PostOrder(ch, Head(ns)) \o PostOrderAll(ch, Tail(ns))

IsPrefix(a, b) == Len(a) <= Len(b) /\ a = SubSeq(b, 1, Len(a))

\* C18: DepthFirst is a post-order traversal: every emission of a node comes
\* after an emission of each of its children, the nodes come out in the
\* post-order of the hierarchy, and at the end every node has been emitted
\* once per occurrence in the hierarchy
C18_PostOrder ==
  (tr.pc # "idle" /\ tr.kind = "DepthFirst") =>
    /\ \A p \in 1..Len(tr.out) :
         \A k \in 1..Len(tr.ch[tr.out[p]]) :
           \E q \in 1..(p - 1) : tr.out[q] = tr.ch[tr.out[p]][k]
    /\ IsPrefix(tr.out, PostOrderAll(tr.ch, Reversed(tr.roots)))
    /\ (tr.pc = "done" => tr.out = PostOrderAll(tr.ch, Reversed(tr.roots)))

\* C18 witness: a finished traversal in which a node with two parents was
\* emitted twice
C18_Witness ==
  /\ tr.pc = "done"
  /\ tr.kind = "DepthFirst"
  /\ \E p, q \in 1..Len(tr.out) : p < q /\ tr.out[p] = tr.out[q]
  /\ Len(tr.ch[0]) = 2

\* the nodes reachable from a root through nodes the filter accepts only
\* (themselves included)
RECURSIVE KeptBelow(_, _, _)
KeptBelow(ch, keep, n) ==
  IF n \notin keep
  THEN {}
  ELSE {n} \cup UNION {KeptBelow(ch, keep, ch[n][k]) : k \in 1..Len(ch[n])}

KeptFromRoots(ch, keep, roots) ==
  UNION {KeptBelow(ch, keep, roots[k]) : k \in 1..Len(roots)}

\* C19: the filtered traversal of load never emits a node the filter
\* rejects, root nodes included, nor a node reachable only through a rejected
\* node; and every node emitted comes after all its accepted children
C19_PrunedNeverEmitted ==
  (tr.pc # "idle" /\ tr.kind = "Filtered") =>
    /\ \A p \in 1..Len(tr.out) :
         /\ tr.out[p] \in tr.keep
         /\ tr.out[p] \in KeptFromRoots(tr.ch, tr.keep, tr.roots)
    /\ \A p \in 1..Len(tr.out) :
         \A k \in 1..Len(tr.ch[tr.out[p]]) :
           tr.ch[tr.out[p]][k] \in tr.keep
             => \E q \in 1..(p - 1) : tr.out[q] = tr.ch[tr.out[p]][k]

\* the passes of the primitive loop made for primitives without a material
DefaultPasses == {p \in 1..Len(ld.selected) : ld.selected[p].mat = DefaultMaterial}

\* C20: during one load default_material is invoked at most once; every
\* primitive without a material gets the result of that one invocation (a
\* handle or None), and a primitive referencing material k gets the handle
\* made for material k
C20_DefaultMaterialOnce ==
  (ld.pc # "idle") =>
    /\ ld.calls <= 1
    /\ \A p \in DefaultPasses :
         /\ ld.calls = 1
         /\ ld.default_material = Some(ld.selected[p].mat_handle)
         /\ ld.selected[p].mat_handle \in {None, Some(DefaultHandle(1))}
    /\ \A p \in 1..Len(ld.selected) :
         ld.selected[p].mat # DefaultMaterial
           => ld.selected[p].mat_handle = Some(MaterialHandle(ld.selected[p].mat.val))

\* C20 witness: a finished load in which two primitives without a material
\* shared the default handle and a third one used material 1
C20_Witness ==
  /\ ld.pc = "done"
  /\ ld.calls = 1
  /\ ld.default_material = Some(Some(DefaultHandle(1)))
  /\ ld.prims = <<DefaultMaterial, Some(1), DefaultMaterial>>
  /\ Len(ld.primitives) >= 2

(* --------------------- load_gltf and the buffer cache ---------------- *)
\* bytes of the BIN chunk of the files loaded, at most
MaxBin == 2

\* concurrent Buffer::load calls made of one document
MaxTasks == 2

BufferIds == {"Bin", "Buffer(0)"}

\* a byte slice: the allocation it points into, its start in the allocation
\* and its length
Slice(alloc, offset, len) == [alloc |-> alloc, offset |-> offset, len |-> len]

\* OwningSlice::find_offset(root, slice) of two slices of one allocation
FindOffset(root, slice) ==
  LET offset == slice.offset - root.offset
  IN IF offset >= 0 /\ offset + slice.len < root.len THEN Some(offset) ELSE None

\* OwningSlice::new_complete
NewComplete(alloc, len) == [allocation |-> alloc, slice_offset |-> 0, slice_len |-> len]

\* OwningSlice::new
OwningSliceNew(alloc, slice_offset, slice_len) ==
  [allocation |-> alloc, slice_offset |-> slice_offset, slice_len |-> slice_len]

\* OwningSlice::slice
OwningSliceSlice(p) == Slice(p.allocation, p.slice_offset, p.slice_len)

\* Cache::empty and Cache::new
CacheEmpty == [id \in BufferIds |-> None]

CacheNew(ptr) == [CacheEmpty EXCEPT !["Bin"] = Some(ptr)]

\* Cache::get
CacheGet(cache, id) ==
  IF cache[id].tag = "Some" THEN Some(OwningSliceSlice(cache[id].val)) ELSE None

\* Cache::store of the boxed bytes alloc: HashMap::insert drops the value the
\* key had, and with it the allocation that value owned
CacheStore(cache, live, id, alloc, len) ==
  [cache |-> [cache EXCEPT ![id] = Some(NewComplete(alloc, len))],
   live |-> (live \cup {alloc}) \
              (IF cache[id].tag = "Some" THEN {cache[id].val.allocation} ELSE {}),
   ret |-> Slice(alloc, 0, len)]

NoTask == [pc |-> "idle", id |-> "Bin", slice |-> None]

\* load_gltf has read a file of `before + bin + after` bytes into `buffer`
\* (allocation 0); gltf::Glb::from_slice gives no blob, an owned one, or one
\* borrowed from the buffer; the document's buffer 0 has a data or a file URI
InitCache ==
  /\ EngineAtRest
  /\ el = NoElement
  /\ tr = NoTraversal
  /\ ld = NoLoad
  /\ ms = NoMesh
  /\ \E before \in 1..2, bin \in 0..MaxBin, after \in 0..1,
        blob \in {"None", "Owned", "Borrowed"}, uri \in {"data", "file"} :
       ca = [pc |-> "load_gltf",
             buffer |-> Slice(0, 0, before + bin + after),
             blob |-> IF blob = "None"
                      THEN None
                      ELSE [tag |-> blob,
                            val |-> IF blob = "Owned"
                                    THEN Slice(1, 0, bin)
                                    ELSE Slice(0, before, bin)],
             uri |-> uri, cache |-> CacheEmpty, live |-> {0}, fresh |-> 2,
             tasks |-> [t \in 1..MaxTasks |-> NoTask]]

\* load_gltf up to T::load: the cache is built from the blob
LoadGltf ==
  /\ ca.pc = "load_gltf"
  /\ LET Borrowed(offset) ==
           IF offset.tag = "Some"
           THEN [ca EXCEPT !.pc = "loading",
                           !.cache = CacheNew(OwningSliceNew(0, offset.val,
                                                             ca.blob.val.len))]
           ELSE [ca EXCEPT !.pc = "panic"]
     IN ca' = CASE ca.blob.tag = "None" -> [ca EXCEPT !.pc = "loading"]
                [] ca.blob.tag = "Owned" ->
                     [ca EXCEPT !.pc = "loading", !.live = @ \cup {1},
                                !.cache = CacheNew(NewComplete(1, ca.blob.val.len))]
                [] OTHER -> Borrowed(FindOffset(ca.buffer, ca.blob.val))
  /\ UNCHANGED <<engine, el, tr, ld, ms>>

\* Buffer::load of task t up to its first await: the cached slice on a hit;
\* on a miss a data URI is decoded and stored at once, a file URI is read
BufferLoad(t) ==
  /\ ca.pc = "loading"
  /\ ca.tasks[t].pc = "idle"
  /\ \E id \in BufferIds :
       LET Cached(st) ==
             [ca EXCEPT !.cache = st.cache, !.live = st.live, !.fresh = @ + 1,
                        !.tasks[t] = [pc |-> "done", id |-> id, slice |-> Some(st.ret)]]
           Hit(buf) ==
             CASE buf.tag = "Some" ->
                    [ca EXCEPT !.tasks[t] = [pc |-> "done", id |-> id, slice |-> buf]]
               [] id = "Bin" ->
                    [ca EXCEPT !.tasks[t] = [pc |-> "panic", id |-> id, slice |-> None]]
               [] ca.uri = "data" -> Cached(CacheStore(ca.cache, ca.live, id, ca.fresh, 1))
               [] OTHER ->
                    [ca EXCEPT !.tasks[t] = [pc |-> "reading", id |-> id, slice |-> None]]
       IN ca' = Hit(CacheGet(ca.cache, id))
  /\ UNCHANGED <<engine, el, tr, ld, ms>>

\* Buffer::load of task t after ctx.read_asset_bytes(buffer_path).await: the
\* error, or the bytes stored in the cache
BufferStore(t) ==
  /\ ca.pc = "loading"
  /\ ca.tasks[t].pc = "reading"
  /\ \E read \in {"Ok", "ReadAssetBytesError"} :
       LET Cached(st) ==
             [ca EXCEPT !.cache = st.cache, !.live = st.live, !.fresh = @ + 1,
                        !.tasks[t] = [pc |-> "done", id |-> ca.tasks[t].id,
                                      slice |-> Some(st.ret)]]
       IN ca' = IF read = "Ok"
                THEN Cached(CacheStore(ca.cache, ca.live, ca.tasks[t].id, ca.fresh, 1))
                ELSE [ca EXCEPT !.tasks[t] = [pc |-> "err", id |-> ca.tasks[t].id,
                                              slice |-> None]]
  /\ UNCHANGED <<engine, el, tr, ld, ms>>

NextCache ==
  \/ LoadGltf
  \/ \E t \in 1..MaxTasks : BufferLoad(t)
  \/ \E t \in 1..MaxTasks : BufferStore(t)

SpecCache == InitCache /\ [][NextCache]_vars

\* what loading attribute k of the primitive gives, for the arm of its semantic
AttrLoadResult(k) ==
  LET Of(a, arm) ==
        IF arm.tag = "None" THEN [tag |-> "Unmatched"] ELSE AccessorLoad(a, arm.val.T)
  IN Of(ms.attrs[k], AttrArm(ms.attrs[k].sem))

\* attribute k fails to load with an error other than Error::AccessorType
AttrFatal(k) ==
  LET Of(r) == r.tag = "Err" /\ r.err # "AccessorType" IN Of(AttrLoadResult(k))

\* the mesh attributes the first n attributes of the primitive give: the
\* ones that load, in order
RECURSIVE AttrsLoaded(_)
AttrsLoaded(n) ==
  IF n = 0
  THEN <<>>
  ELSE LET Of(r) ==
             IF r.tag = "Ok"
             THEN Append(AttrsLoaded(n - 1), AttrArm(ms.attrs[n].sem).val.attr)
             ELSE AttrsLoaded(n - 1)
       IN Of(AttrLoadResult(n))

\* C21: as_mesh returns from its attribute loop only with the error of an
\* attribute whose load failed with an error other than Error::AccessorType,
\* and does so at the first such attribute; an attribute whose load fails
\* with Error::AccessorType is left out of the mesh and the loop goes on, so
\* the mesh holds exactly the attributes before the current one that loaded.
C21_TypeMismatchSkipped ==
  ms.pc \in {"attributes", "ok", "err", "panic"} /\ ms.at # "topology" =>
    LET returned == ms.pc = "err" /\ ms.at = "attribute"
        passed == IF returned THEN ms.pos - 1 ELSE ms.pos
    IN /\ \A k \in 1..passed : ~AttrFatal(k)
       /\ returned => AttrFatal(ms.pos) /\ ms.res = AttrLoadResult(ms.pos)
       /\ [k \in 1..Len(ms.mesh) |-> ms.mesh[k].attr] = AttrsLoaded(passed)

\* C21 witness: as_mesh returned Ok(mesh) for a primitive one of whose
\* attributes failed with Error::AccessorType and a later one of which loaded
C21_Witness ==
  /\ ms.pc = "ok"
  /\ \E k, j \in 1..Len(ms.attrs) :
       /\ k < j
       /\ AttrLoadResult(k).tag = "Err"
       /\ AttrLoadResult(k).err = "AccessorType"
       /\ AttrLoadResult(j).tag = "Ok"
       /\ \E i \in 1..Len(ms.mesh) : ms.mesh[i].attr = AttrArm(ms.attrs[j].sem).val.attr

\* the nodes below n, n included
RECURSIVE Below(_, _)
Below(ch, n) == {n} \cup UNION {Below(ch, ch[n][k]) : k \in 1..Len(ch[n])}

\* the nodes reachable from the scene roots
Reachable(ch, roots) == UNION {Below(ch, roots[k]) : k \in 1..Len(roots)}

\* the nodes listing n as a child
Parents(ch, n) == {p \in Nodes : \E k \in 1..Len(ch[p]) : ch[p][k] = n}

\* the hierarchy is a forest under the roots: a root has no parent, and every
\* other node at most one
IsForest(ch, roots) ==
  /\ \A i, j \in 1..Len(roots) : i # j => roots[i] # roots[j]
  /\ \A k \in 1..Len(roots) : Parents(ch, roots[k]) = {}
  /\ \A n \in Nodes : Cardinality(Parents(ch, n)) <= 1

\* the names along the path from the root above n down to n
RECURSIVE NamesTo(_, _, _)
NamesTo(ch, named, n) ==
  IF Parents(ch, n) = {}
  THEN <<NodeName(named, n)>>
  ELSE Append(NamesTo(ch, named, CHOOSE p \in Parents(ch, n) : TRUE), NodeName(named, n))

\* C22: node_paths maps every node reachable from a scene root to the names
\* along the path from the root down to the node, root first and the node
\* itself last, at any depth, an unnamed node giving "Node<index>"
C22_PathsFromRoot ==
  (tr.pc = "paths" /\ IsForest(tr.ch, tr.roots)) =>
    /\ tr.paths.tag = "Ok"
    /\ \A n \in Reachable(tr.ch, tr.roots) :
         /\ n \in DOMAIN tr.paths.val
         /\ tr.paths.val[n] = NamesTo(tr.ch, tr.named, n)

\* the DepthFirst traversal of a node tree
WalksTree == tr.pc \in {"walk", "done"} /\ tr.kind = "DepthFirst" /\ IsForest(tr.ch, tr.roots)

\* C23: on a node tree DepthFirst::next terminates: no node is emitted
\* twice and only nodes of the tree are, so the calls returning a node are at
\* most as many as the nodes; the traversal reaches its end, where the stack
\* is empty and every node of the tree has been emitted; every later call
\* returns None and changes nothing; and no stack entry ever has a child
\* offset above the number of children of its node
C23_DepthFirstTerminates ==
  /\ [](WalksTree =>
          /\ \A p, q \in 1..Len(tr.out) : p # q => tr.out[p] # tr.out[q]
          /\ \A p \in 1..Len(tr.out) : tr.out[p] \in Reachable(tr.ch, tr.roots)
          /\ tr.pc = "done" =>
               /\ tr.stack = <<>>
               /\ {tr.out[p] : p \in 1..Len(tr.out)} = Reachable(tr.ch, tr.roots))
  /\ [](tr.pc \in {"walk", "done"} /\ tr.kind = "DepthFirst" =>
          \A k \in 1..Len(tr.stack) : tr.stack[k][2] <= Len(tr.ch[tr.stack[k][1]]))
  /\ [][WalksTree /\ tr.pc = "done" =>
          tr' = [tr EXCEPT !.nones = @ + 1]]_vars
  /\ WalksTree => <>(tr.pc = "done")

\* C23 witness: the traversal of a tree with a node at depth 2 has ended and
\* next() was called again, returning None
C23_Witness ==
  /\ WalksTree
  /\ tr.pc = "done"
  /\ tr.nones >= 2
  /\ \E n \in Nodes : \E p \in Parents(tr.ch, n) : Parents(tr.ch, p) # {}
  /\ Len(tr.out) >= 3

\* C24: norm maps 0 to 0 and the largest value of the type (255 for u8,
\* 65535 for u16) to exactly 1, and maps no value above 1
C24_NormUnitRange ==
  el.pc = "returned" /\ el.op = "norm" =>
    /\ el.before[1] = 0 => el.res.num = 0
    /\ el.before[1] = TypeMax(el.U.t) => el.res.num = el.res.den
    /\ el.res.num <= el.res.den

\* C25: whatever the order of the index array, a position find_replacement
\* returns is inside the array and the index stored there is the target
C25_FoundIsStored ==
  (IsSparse /\ fr.pc = "done" /\ fr.res.tag = "Some") =>
    /\ fr.res.val < Len(known.idx)
    /\ known.idx[fr.res.val + 1] = fr.target

\* C25 witness: find_replacement returned a position of an index array that
\* is not ascending
C25_Witness ==
  /\ IsSparse
  /\ fr.pc = "done"
  /\ fr.res.tag = "Some"
  /\ Len(known.idx) = 2
  /\ known.idx[1] > known.idx[2]

\* the index view holds exactly the sparse count of indices of the index width
ExactIndexView ==
  Len(views.indices) =
    ExactLen(acc.sparse.count, TypeSize(acc.sparse.index_type),
             data.val.v.indices.d.meta.stride)

\* C26: the index data of a sparse accessor describes elements of the index
\* width; IndexData::get(n), n below the sparse count, reads the n-th stored
\* index, and is Some for every such n when the index view holds exactly the
\* sparse count of indices
C26_IndexReads ==
  (IsSparse /\ ret.op = "index_get" /\ ret.index < acc.sparse.count) =>
    /\ data.val.v.indices.d.meta.elem_size = TypeSize(acc.sparse.index_type)
    /\ ret.res.tag = "Some" => ret.res.val = known.idx[ret.index + 1]
    /\ ExactIndexView => ret.res.tag = "Some"

\* the item U::from_element gives for shape, with each component that is a
\* norm() of 0 written as the f32 0.0 it is
DecodedItem(U, shape, r) ==
  LET normed == /\ U.d = "Named"
                /\ U.t \in {"AttrColor", "AttrTexCoord", "AttrJointWeight"}
                /\ shape.ty \in {"U8", "U16"}
  IN [k \in 1..Len(r.item) |->
        IF normed /\ k <= DimCount(shape.dim)
        THEN IF r.item[k].num = 0 THEN F32Zero ELSE r.item[k]
        ELSE r.item[k]]

\* C27: for every implementation T of Accessible and every shape it accepts,
\* T::zero(shape), which SparseData::get returns for an element without base
\* and replacement, is the value T::from_element decodes from the elem_size
\* zero bytes get_raw returns for that element
C27_ZeroIsDecodedZeros ==
  (el.pc = "returned" /\ el.op = "zero" /\ ImplValidate(el.U, el.shape)) =>
    LET Same(r) == r.tag = "Item" /\ DecodedItem(el.U, el.shape, r) = el.res
    IN Same(ImplFromElement(el.U, ZeroBytes(ShapeSize(el.shape)).val, el.shape))

\* an iterator is in use
Iterating == Loaded /\ it.pc \in {"live", "done", "panic"}

\* C28: the counter of a DenseDataIter or SparseDataIter, and of the dense
\* iterators a SparseDataIter holds over its base and its values, stays
\* between 0 and the count of its data, so len() = count - counter never
\* underflows; no call of next() decreases the counter; and after a call
\* that returned None every later call returns None
C28_IterCounterBounds ==
  /\ [](Iterating =>
          /\ 0 <= it.st.counter
          /\ it.st.counter <= DataCount(data.val)
          /\ IsSparse =>
               /\ it.st.vc <= data.val.v.values.meta.count
               /\ data.val.v.base.tag = "Some" =>
                    it.st.bc <= data.val.v.base.val.meta.count)
  /\ [][(Iterating /\ it'.pc # "idle") =>
          /\ it'.st.counter >= it.st.counter
          /\ it.pc = "done" => (it'.pc = "done" /\ it'.last = None)]_vars

\* C28 witness: a sparse iterator over two elements, both replaced, returned
\* them and then None
C28_Witness ==
  /\ IsSparse
  /\ it.pc = "done"
  /\ acc.count = 2
  /\ it.st.counter = 2
  /\ Len(it.out) = 2

\* the slices the loads have handed out
HandedOut == {ca.tasks[t].slice.val : t \in {u \in 1..MaxTasks : ca.tasks[u].slice.tag = "Some"}}

\* C29: a slice handed out by the cache stays backed by a live allocation
\* under every interleaving of Buffer::load calls, and an entry the cache
\* holds for a BufferId is never replaced or removed
C29_SlicesStayLive ==
  /\ [](ca.pc = "loading" => \A sl \in HandedOut : sl.alloc \in ca.live)
  /\ [][ca.pc = "loading" =>
          \A id \in BufferIds :
            ca.cache[id].tag = "Some" => ca'.cache[id] = ca.cache[id]]_vars

\* C30: for a BIN chunk borrowed from the file's buffer, wherever it lies in
\* the buffer and also when it ends at the buffer's last byte, find_offset
\* returns its offset and load_gltf goes on to load with the chunk cached
C30_BorrowedChunkFound ==
  (ca.pc \in {"loading", "panic"} /\ ca.blob.tag = "Borrowed") =>
    /\ ca.pc = "loading"
    /\ ca.cache["Bin"] = Some(OwningSliceNew(0, ca.blob.val.offset, ca.blob.val.len))
====
